---- MODULE Spec2Model ----
(***************************************************************************)
(* Status tracking of hypothesis-generation workflows: the StatusTracker   *)
(* (status_tracker.py) reconciling the Redis status cache                  *)
(* (db/state_cache/stateCache.py) with the MongoDB task_updates collection *)
(* (db.py).  Every Redis command and every MongoDB operation is one atomic *)
(* step of the calling worker, so that calls of several workers interleave *)
(* at exactly the points where the real stores let them interleave.        *)
(***************************************************************************)
EXTENDS Integers, Sequences, FiniteSets, TLC

\* ------------------------------------------------------------------------
\* Bounds of the model
\* ------------------------------------------------------------------------
\* last value of the millisecond clock
MaxTime == 2
\* number of add_update calls with valid input in one behaviour
MaxRecords == 2
\* number of calls of _persist_and_clear from outside add_update
MaxPersistCalls == 1
\* number of add_update calls when all combinations of arguments are offered
MaxWideRecords == 2
\* number of add_update calls of workers that run concurrently
MaxConcRecords == 2
\* number of add_update and of direct _persist_and_clear calls when only
\* _persist_and_clear calls overlap
MaxRaceRecords == 1
MaxRacePersistCalls == 2

\* length of the histories calculate_progress is called with
MaxHistoryLen == 15
\* number of add_update calls before and after recover_from_cache
MaxRecoverRecords == 2
\* number of emit_task_update calls with valid input
MaxEmits == 2
\* number of emit_task_update calls when all combinations of arguments are
\* offered
MaxWideEmits == 1
\* number of add_update calls when details and error are offered
MaxFieldRecords == 2
\* number of add_update calls among the calls of every kind
MaxResidencyRecords == 1
\* number of emit_task_update calls on an instance with a long history
MaxWindowEmits == 1
\* number of add_update calls when the store can fail
MaxFailRecords == 2

\* the workers (pipeline-step executors) that call into the tracker
Procs == {"w1", "w2"}

\* Python's None, also standing for a key that a dict does not have
None == "None"

\* the value of a numeric key that a dict does not have
NoNumber == -1

\* the _id of a dict that has no _id key; ObjectIds are numbered from 1, and
\* str tells an ObjectId from the string str() makes of it
NoId == [n |-> 0, str |-> FALSE]

\* ------------------------------------------------------------------------
\* Inputs
\* ------------------------------------------------------------------------
TaskState == {"started", "completed", "failed", "retrying"}

\* hypothesis ids passed by callers; "" is the empty (falsy) id
HypIds == {"h1", "h2"}
HypIdInputs == HypIds \cup {""}

\* state arguments passed by callers; "bogus" is a value that is no TaskState
StateInputs == TaskState \cup {"bogus"}

TaskNames == {"Creating enrich data", "Verifying existence of enrichment data",
              "Getting candidate genes"}

ProgressInputs == {0, 80}

\* task_name.startswith("Verifying existence"), on the task names of the model
StartsWithVerifyingExistence(task_name) ==
    task_name \in {"Verifying existence of enrichment data",
                   "Verifying existence of hypothesis data"}

\* the empty dict passed as details
EmptyDetails == "{}"

\* bool(x) of an optional text or dict
Truthy(x) == x \notin {None, "", EmptyDetails}

\* argument tuples of add_update with details and error
FieldArgsOf(hs, ps, ts, ss, ds, es) ==
    [hypothesis_id : hs, progress : ps, task_name : ts, state : ss,
     details : ds, error : es]

\* the arguments offered to a worker that passes details and error
FieldArgs == FieldArgsOf({"h1"}, {0}, {"Creating enrich data", "Getting candidate genes"},
                         {"started", "failed"}, {None, EmptyDetails, "details"},
                         {None, "error text"})

\* argument tuples of add_update
Args(hs, ps, ts, ss) ==
    [hypothesis_id : hs, progress : ps, task_name : ts, state : ss,
     details : {None}, error : {None}]

\* the arguments offered to a worker that makes calls of every kind
SeqArgs == Args(HypIdInputs, {0}, {"Creating enrich data", "Getting candidate genes"},
                {"started", "completed", "bogus"})

\* the arguments offered to a worker that makes add_update calls only
WideArgs == Args({"h1", ""}, ProgressInputs, TaskNames, StateInputs)

\* argument tuples of emit_task_update
EmitArgsOf(hs, ps, ts, ss, es) ==
    [hypothesis_id : hs, progress : ps, task_name : ts, state : ss,
     details : {None}, next_task : {None}, error : es]

\* the arguments offered to a worker that makes several emit_task_update calls
EmitArgs == EmitArgsOf({"h1"}, {0, 80},
                       {"Creating enrich data", "Getting candidate genes"},
                       {"started", "completed"}, {None})

\* the arguments offered to a worker that makes one emit_task_update call
WideEmitArgs == EmitArgsOf({"h1"}, {0, 80, 100},
                           TaskNames \cup {"Generating hypothesis",
                                            "Verifying existence of hypothesis data"},
                           StateInputs,
                           {None, "error text"})

\* the arguments offered to a worker whose calls can be cut short
RecoverArgs == Args({"h1"}, {0}, {"Getting candidate genes"}, {"started", "completed"})

\* the arguments offered to a worker that makes calls of every kind after a
\* startup
ResidencyArgs == Args({"h1"}, {0}, {"Creating enrich data"}, {"started", "completed"})

\* the arguments offered to workers that run concurrently
ConcArgs == Args({"h1"}, {0}, {"Creating enrich data", "Getting candidate genes"},
                 {"started", "completed"})

VARIABLES
    now,            \* the UTC clock, in milliseconds
    history,        \* Redis sorted sets hyp:<id>:history (set of payloads)
    latest,         \* Redis strings hyp:<id>:latest
    inprogress,     \* Redis set hyp:inprogress:set
    persisted,      \* Redis set hyp:persisted:set
    task_updates,   \* MongoDB collection task_updates, in natural order
    nextOid,        \* the next ObjectId MongoDB generates
    pc,             \* per worker: the step it is about to take
    local,          \* per worker: the local variables of its call
    pre,            \* per worker: the stores as they were when its call began
    recorded,       \* every <<hypothesis id, update>> a ZADD of add_update wrote
    lastRecorded,   \* per instance: the update of the latest ZADD of add_update
    calc,           \* the argument and the results of calculate_progress calls
    nRecords,       \* number of add_update calls with valid input so far
    nPersistCalls   \* number of direct calls of _persist_and_clear so far

vars == <<now, history, latest, inprogress, persisted, task_updates, nextOid,
          pc, local, pre, recorded, lastRecorded, calc, nRecords, nPersistCalls>>

cacheVars == <<history, latest, inprogress, persisted>>
countVars == <<nRecords, nPersistCalls>>
storeVars == <<task_updates, nextOid>>
auxVars == <<recorded, lastRecorded, calc>>

\* ------------------------------------------------------------------------
\* StepUpdate dicts
\* ------------------------------------------------------------------------
\* the update dict add_update builds; hypothesis_id and _id are keys only
\* documents of the task_updates collection have; float tells whether the
\* progress is a Python float (80.0) or an int (80); details and error are
\* keys of the dict only when the argument is truthy, None is the absent key
BuildUpdate(ts, task_name, state, progress, details, error) ==
    [timestamp |-> ts, task |-> task_name, state |-> state, progress |-> progress,
     float |-> FALSE,
     details |-> IF Truthy(details) THEN details ELSE None,
     error |-> IF Truthy(error) THEN error ELSE None,
     hypothesis_id |-> None, _id |-> NoId]

\* key = (update['task'], update['timestamp'])
Key(update) == <<update.task, update.timestamp>>

\* the StepUpdate fields of a dict, without the keys the collection adds
StepUpdate(update) == [update EXCEPT !.hypothesis_id = None, !._id = NoId]

StepUpdates(seq) == [k \in 1..Len(seq) |-> StepUpdate(seq[k])]

Range(seq) == {seq[k] : k \in 1..Len(seq)}

\* ------------------------------------------------------------------------
\* Redis sorted set: ZADD / ZRANGE
\* ------------------------------------------------------------------------
\* position of x in the sequence order
Rank(order, x) == CHOOSE k \in 1..Len(order) : order[k] = x

\* the modelled values, in the lexicographic order of their JSON text
TaskOrder == <<"Creating enrich data", "Generating hypothesis",
               "Getting candidate genes",
               "Verifying existence of enrichment data",
               "Verifying existence of hypothesis data">>
StateOrder == <<"completed", "failed", "retrying", "started">>

\* the characters of the text of a number and what follows it, in the order
\* of their codes: "," < "." < "0" .. "9" < "}"
Comma == 1
Dot == 2
Digit(d) == d + 3
Brace == 13

\* the decimal digits of a natural number
RECURSIVE Digits(_)
Digits(n) == IF n < 10 THEN <<Digit(n)>> ELSE Digits(n \div 10) \o <<Digit(n % 10)>>

\* what follows "progress" in the payload: ',"details"' < ',"error"' < '}'
TailRank(update) ==
    IF update.details # None THEN 0 ELSE IF update.error # None THEN 1 ELSE 2

\* what follows the details in the payload: ',"error"' < '}'
AfterDetails(update) ==
    IF update.details # None /\ update.error = None THEN 1 ELSE 0

\* a sequence filled up with zeros to a length
PadTo(seq, length) == seq \o [k \in 1..(length - Len(seq)) |-> 0]

\* the text of the progress with the character behind it: "80}", "80.0}",
\* "0," ...; a dict without the key sorts behind the dict recover_from_cache
\* makes of it, which has the key added at its end
ProgressText(update) ==
    IF update.progress = NoNumber THEN PadTo(<<Brace + 1>>, 7)
    ELSE PadTo(Digits(update.progress)
               \o (IF update.float THEN <<Dot, Digit(0)>> ELSE <<>>)
               \o <<IF TailRank(update) = 2 THEN Brace ELSE Comma>>, 7)

\* the rank of the text of the state; a dict without the key sorts behind the
\* dict recover_from_cache makes of it
StateRank(update) ==
    IF update.state = None THEN Len(StateOrder) + 1 ELSE Rank(StateOrder, update.state)

\* json.dumps(update, separators=(",", ":")): the payload text as the tuple of
\* its field texts, in the key order timestamp, task, state, progress, rest
Payload(update) ==
    <<update.timestamp, Rank(TaskOrder, update.task), StateRank(update)>>
    \o ProgressText(update) \o <<TailRank(update), AfterDetails(update)>>

\* lexicographic order of two tuples of equal length
RECURSIVE LexLess(_, _)
LexLess(a, b) ==
    IF a = <<>> THEN FALSE
    ELSE IF Head(a) # Head(b) THEN Head(a) < Head(b)
    ELSE LexLess(Tail(a), Tail(b))

\* score = int(datetime.fromisoformat(ts_iso).timestamp() * 1000)
Score(update) == update.timestamp

\* order of the members of a sorted set: by score, equal scores by member text
MemberLess(a, b) ==
    \/ Score(a) < Score(b)
    \/ Score(a) = Score(b) /\ LexLess(Payload(a), Payload(b))

\* r.zadd(key, {payload: score}): a member that is already there is not added
\* a second time
ZAdd(zset, update) == zset \cup {update}

\* r.zrange(key, 0, -1), each member parsed back with json.loads
RECURSIVE ZRange(_)
ZRange(zset) ==
    IF zset = {} THEN <<>>
    ELSE LET first == CHOOSE m \in zset : \A o \in zset \ {m} : MemberLess(m, o)
         IN  <<first>> \o ZRange(zset \ {first})

\* ------------------------------------------------------------------------
\* Deduplicate and sort (status_tracker.py)
\* ------------------------------------------------------------------------
\* deduplicated[key] = update: a dict keeps the position of the first
\* insertion of a key and the value of the last one
DictSet(dict, update) ==
    IF \E k \in 1..Len(dict) : Key(dict[k]) = Key(update)
    THEN [k \in 1..Len(dict) |->
             IF Key(dict[k]) = Key(update) THEN update ELSE dict[k]]
    ELSE Append(dict, update)

RECURSIVE DeduplicateFrom(_, _)
DeduplicateFrom(dict, combined) ==
    IF combined = <<>> THEN dict
    ELSE DeduplicateFrom(DictSet(dict, Head(combined)), Tail(combined))

\* for update in combined: deduplicated[key] = update; deduplicated.values()
Deduplicate(combined) == DeduplicateFrom(<<>>, combined)

\* insert update behind every element whose timestamp is not greater
RECURSIVE InsertByTimestamp(_, _)
InsertByTimestamp(sorted, update) ==
    IF sorted = <<>> THEN <<update>>
    ELSE IF Head(sorted).timestamp <= update.timestamp
         THEN <<Head(sorted)>> \o InsertByTimestamp(Tail(sorted), update)
         ELSE <<update>> \o sorted

RECURSIVE SortFrom(_, _)
SortFrom(sorted, values) ==
    IF values = <<>> THEN sorted
    ELSE SortFrom(InsertByTimestamp(sorted, Head(values)), Tail(values))

\* sorted(values, key=lambda x: x['timestamp']), a stable sort
SortedByTimestamp(values) == SortFrom(<<>>, values)

\* a _persist_and_clear that saves the cache history alone
FinalHistory_CacheOnly(db_history, new_history) ==
    SortedByTimestamp(Deduplicate(new_history))

\* _persist_and_clear: combined = db_history + new_history
FinalHistory(db_history, new_history) ==
    SortedByTimestamp(Deduplicate(db_history \o new_history))

\* get_history: combined_history = redis_history + db_history
SortedHistory(redis_history, db_history) ==
    SortedByTimestamp(Deduplicate(redis_history \o db_history))

\* ------------------------------------------------------------------------
\* MongoDB collection task_updates (db.py)
\* ------------------------------------------------------------------------
\* find({"hypothesis_id": hypothesis_id}), in natural order
Find(collection, hypothesis_id) ==
    LET Matches(doc) == doc.hypothesis_id = hypothesis_id
    IN  SelectSeq(collection, Matches)

\* str(update["_id"])
Str(oid) == [oid EXCEPT !.str = TRUE]

\* a get_task_history whose find has no filter
GetTaskHistory_Unfiltered(collection, hypothesis_id) ==
    [k \in 1..Len(collection) |-> [collection[k] EXCEPT !._id = Str(collection[k]._id)]]

\* Database.get_task_history
GetTaskHistory(collection, hypothesis_id) ==
    LET found == Find(collection, hypothesis_id)
    IN  [k \in 1..Len(found) |-> [found[k] EXCEPT !._id = Str(found[k]._id)]]

\* a save_task_history that does not delete the existing history first
DeleteMany_Nothing(collection, hypothesis_id) == collection

\* delete_many({"hypothesis_id": hypothesis_id})
DeleteMany(collection, hypothesis_id) ==
    LET Stays(doc) == doc.hypothesis_id # hypothesis_id
    IN  SelectSeq(collection, Stays)

\* insert_many(documents), ordered: every document without _id gets a fresh
\* ObjectId; the insertion stops with a BulkWriteError at the first document
\* whose _id the collection already holds.  The result is the collection, the
\* next ObjectId and whether the error was raised.
RECURSIVE InsertMany(_, _, _)
InsertMany(collection, oid, documents) ==
    IF documents = <<>>
    THEN [collection |-> collection, nextOid |-> oid, error |-> FALSE]
    ELSE LET doc == Head(documents)
             id  == IF doc._id = NoId THEN [n |-> oid, str |-> FALSE] ELSE doc._id
         IN  IF \E k \in 1..Len(collection) : collection[k]._id = id
             THEN [collection |-> collection, nextOid |-> oid, error |-> TRUE]
             ELSE InsertMany(Append(collection, [doc EXCEPT !._id = id]),
                             IF doc._id = NoId THEN oid + 1 ELSE oid,
                             Tail(documents))

\* [{**update, "hypothesis_id": hypothesis_id} for update in task_history]
Documents(task_history, hypothesis_id) ==
    [k \in 1..Len(task_history) |->
        [task_history[k] EXCEPT !.hypothesis_id = hypothesis_id]]

\* ------------------------------------------------------------------------
\* The finalize trigger of add_update
\* ------------------------------------------------------------------------
\* the condition with "or" binding tighter than "and"
ShouldPersist_OrFirst(state, task_name, progress) ==
    /\ state \in {"completed", "failed"}
    /\ \/ task_name \in {"Creating enrich data", "Generating hypothesis"}
       \/ StartsWithVerifyingExistence(task_name)
    /\ progress = 80

\* state in [COMPLETED, FAILED] and (task_name in [...] or
\* task_name.startswith("Verifying existence") and progress == 80)
ShouldPersist(state, task_name, progress) ==
    /\ state \in {"completed", "failed"}
    /\ \/ task_name \in {"Creating enrich data", "Generating hypothesis"}
       \/ StartsWithVerifyingExistence(task_name) /\ progress = 80

\* a validation that checks the hypothesis id only
RaisesValueError_IdOnly(hypothesis_id, state) == hypothesis_id = ""

\* not hypothesis_id, or not isinstance(state, TaskState): ValueError
RaisesValueError(hypothesis_id, state) ==
    hypothesis_id = "" \/ state \notin TaskState

\* ------------------------------------------------------------------------
\* StatusTracker.calculate_progress
\* ------------------------------------------------------------------------
\* task weights of the enrichment process group
enrichment_tasks ==
    ("Verifying existence of enrichment data" :> 10) @@
    ("Getting candidate genes" :> 10) @@
    ("Predicting causal gene" :> 20) @@
    ("Getting relevant gene proof" :> 20) @@
    ("Creating enrich data" :> 20)

\* the hypothesis process group with the task names spelled as in a dictionary
hypothesis_tasks_Respelled ==
    ("Verifying existence of hypothesis data" :> 2) @@
    ("Getting enrichment data" :> 2) @@
    ("Getting gene data" :> 2) @@
    ("Querying gene data" :> 3) @@
    ("Querying variant data" :> 3) @@
    ("Querying phenotype data" :> 3) @@
    ("Generating graph summary" :> 3) @@
    ("Generating hypothesis" :> 2)

\* task weights of the hypothesis process group
hypothesis_tasks ==
    ("Verifying existence of hypothesis data" :> 2) @@
    ("Getting enrichement data" :> 2) @@
    ("Getting gene data" :> 2) @@
    ("Querying gene data" :> 3) @@
    ("Querying variant data" :> 3) @@
    ("Querying phenotype data" :> 3) @@
    ("Generating graph summary" :> 3) @@
    ("Generating hypothesis" :> 2)

\* sum(table.values())
RECURSIVE SumValues(_, _)
SumValues(table, names) ==
    IF names = {} THEN 0
    ELSE LET name == CHOOSE n \in names : TRUE
         IN  table[name] + SumValues(table, names \ {name})

\* a filter that lets Failed entries pass as well
IsCompleted_OrFailed(task) == task.state \in {"completed", "failed"}

\* task.get('state') == TaskState.COMPLETED.value
IsCompleted(task) == task.state = "completed"

\* the loop over filtered_history: the weights added to enrichment_progress
RECURSIVE EnrichmentProgress(_)
EnrichmentProgress(filtered_history) ==
    IF filtered_history = <<>> THEN 0
    ELSE (IF Head(filtered_history).task \in DOMAIN enrichment_tasks
          THEN enrichment_tasks[Head(filtered_history).task] ELSE 0)
         + EnrichmentProgress(Tail(filtered_history))

\* the loop over filtered_history: the weights added to hypothesis_progress,
\* in the elif branch
RECURSIVE HypothesisProgress(_)
HypothesisProgress(filtered_history) ==
    IF filtered_history = <<>> THEN 0
    ELSE (IF /\ Head(filtered_history).task \notin DOMAIN enrichment_tasks
             /\ Head(filtered_history).task \in DOMAIN hypothesis_tasks
          THEN hypothesis_tasks[Head(filtered_history).task] ELSE 0)
         + HypothesisProgress(Tail(filtered_history))

Min(a, b) == IF a <= b THEN a ELSE b

\* (progress / total_weight) * share, in hundredths of a percent
Percentage(progress, total_weight, share) ==
    (progress * share * 100) \div total_weight

\* round(x, 2) of a value given in hundredths of a percent; the weights are
\* whole numbers and the total weight of each group is its share, so the
\* rounded value is a whole number of percent
Round2(hundredths) == hundredths \div 100

\* a calculate_progress without the limit of 100
CalculateProgress_NoMin(task_history) ==
    IF task_history = <<>> THEN 0
    ELSE LET filtered_history == SelectSeq(task_history, IsCompleted)
         IN  Round2(Percentage(EnrichmentProgress(filtered_history),
                        SumValues(enrichment_tasks, DOMAIN enrichment_tasks), 80)
                    + Percentage(HypothesisProgress(filtered_history),
                        SumValues(hypothesis_tasks, DOMAIN hypothesis_tasks), 20))

\* StatusTracker.calculate_progress, the result in percent
CalculateProgress(task_history) ==
    IF task_history = <<>> THEN 0
    ELSE LET filtered_history == SelectSeq(task_history, IsCompleted)
             enrichment_progress == EnrichmentProgress(filtered_history)
             hypothesis_progress == HypothesisProgress(filtered_history)
             total_enrichment_weight ==
                 SumValues(enrichment_tasks, DOMAIN enrichment_tasks)
             total_hypothesis_weight ==
                 SumValues(hypothesis_tasks, DOMAIN hypothesis_tasks)
             enrichment_percentage ==
                 Percentage(enrichment_progress, total_enrichment_weight, 80)
             hypothesis_percentage ==
                 Percentage(hypothesis_progress, total_hypothesis_weight, 20)
         IN  Round2(Min(enrichment_percentage + hypothesis_percentage, 100 * 100))

\* ------------------------------------------------------------------------
\* State
\* ------------------------------------------------------------------------
\* the contents of the cache and of the collection
Stores ==
    [history |-> history, latest |-> latest, inprogress |-> inprogress,
     persisted |-> persisted, task_updates |-> task_updates]

InitStores ==
    [history |-> [h \in HypIds |-> {}], latest |-> [h \in HypIds |-> <<>>],
     inprogress |-> {}, persisted |-> {}, task_updates |-> <<>>]

\* the value of the local variable update before add_update has built it
NoUpdate == BuildUpdate(0, None, None, 0, None, None)

\* the value of calc before calculate_progress has been called
NoCalc == [task_history |-> <<>>, progress |-> 0, before |-> 0]

\* the arguments of a call that is no emit_task_update call
NoArgs ==
    [hypothesis_id |-> None, progress |-> 0, task_name |-> None, state |-> None,
     details |-> None, next_task |-> None, error |-> None]

\* the value of the local variable update of emit_task_update before the
\* envelope is built; status None stands for an envelope without status
NoEnvelope ==
    [hypothesis_id |-> None, timestamp |-> 0, task |-> None, state |-> None,
     progress |-> 0, float |-> FALSE, task_history |-> <<>>, next_task |-> None,
     error |-> None, status |-> None]

\* the local variables of a worker that is in no call
IdleLocal ==
    [op |-> None, hypothesis_id |-> None, update |-> NoUpdate,
     db_history |-> <<>>, new_history |-> <<>>, final_history |-> <<>>,
     redis_history |-> <<>>, finalize |-> FALSE, raised |-> None, ret |-> <<>>,
     ids |-> <<>>, details |-> None, error |-> None, args |-> NoArgs, progress |-> 0, float |-> FALSE,
     latest_5 |-> <<>>, envelope |-> NoEnvelope,
     attempt |-> 0, sleeps |-> 0, published |-> FALSE]

Init ==
    /\ now = 1
    /\ history = [h \in HypIds |-> {}]
    /\ latest = [h \in HypIds |-> <<>>]
    /\ inprogress = {}
    /\ persisted = {}
    /\ task_updates = <<>>
    /\ nextOid = 1
    /\ pc = [p \in Procs |-> "idle"]
    /\ local = [p \in Procs |-> IdleLocal]
    /\ pre = [p \in Procs |-> InitStores]
    /\ recorded = {}
    /\ lastRecorded = [h \in HypIds |-> <<>>]
    /\ calc = NoCalc
    /\ nRecords = 0
    /\ nPersistCalls = 0

\* datetime.now(timezone.utc) moves on by a millisecond
Tick ==
    /\ now < MaxTime
    /\ now' = now + 1
    /\ UNCHANGED <<cacheVars, storeVars, pc, local, auxVars, countVars>>

\* worker p goes to step next with its local variables changed to loc
Goto(p, next, loc) ==
    /\ pc' = [pc EXCEPT ![p] = next]
    /\ local' = [local EXCEPT ![p] = loc]

\* ------------------------------------------------------------------------
\* StatusTracker.add_update
\* ------------------------------------------------------------------------
\* the call: validation of the arguments and construction of the update dict
AddUpdateCall(p, argSet, maxRecords) ==
    /\ pc[p] = "idle"
    /\ \E a \in argSet :
        IF RaisesValueError(a.hypothesis_id, a.state)
        THEN /\ Goto(p, "raised", [IdleLocal EXCEPT !.op = "add_update",
                                       !.hypothesis_id = a.hypothesis_id,
                                       !.raised = "ValueError"])
             /\ UNCHANGED nRecords
        ELSE /\ nRecords < maxRecords
             /\ nRecords' = nRecords + 1
             /\ Goto(p, "zadd", [IdleLocal EXCEPT !.op = "add_update",
                                     !.hypothesis_id = a.hypothesis_id,
                                     !.details = a.details, !.error = a.error,
                                     !.update = BuildUpdate(now, a.task_name, a.state,
                                                   a.progress, a.details, a.error)])
    /\ UNCHANGED <<now, cacheVars, storeVars, auxVars, nPersistCalls>>

\* RedisStatusCache.add_update: r.zadd(history key, {payload: score})
CacheZadd(p) ==
    /\ pc[p] = "zadd"
    /\ history' = [history EXCEPT ![local[p].hypothesis_id] =
                                      ZAdd(@, local[p].update)]
    /\ recorded' = recorded \cup {<<local[p].hypothesis_id, local[p].update>>}
    /\ lastRecorded' = [lastRecorded EXCEPT ![local[p].hypothesis_id] =
                                                <<local[p].update>>]
    /\ Goto(p, "sadd_inprogress", local[p])
    /\ UNCHANGED <<now, latest, inprogress, persisted, storeVars, calc, countVars>>

\* an add_update of the cache that does not mark the instance in progress
CacheSaddInprogress_Skipped(p) ==
    /\ pc[p] = "sadd_inprogress"
    /\ Goto(p, "set_latest", local[p])
    /\ UNCHANGED <<now, cacheVars, storeVars, auxVars, countVars>>

\* RedisStatusCache.add_update: r.sadd("hyp:inprogress:set", hyp_id)
CacheSaddInprogress(p) ==
    /\ pc[p] = "sadd_inprogress"
    /\ inprogress' = inprogress \cup {local[p].hypothesis_id}
    /\ Goto(p, "set_latest", local[p])
    /\ UNCHANGED <<now, history, latest, persisted, storeVars, auxVars, countVars>>

\* where the caller of RedisStatusCache.add_update goes on: add_update at its
\* persist decision, recover_from_cache at its call of _persist_and_clear
AfterCacheAddUpdate(p) ==
    IF local[p].op = "recover_from_cache" THEN "find" ELSE "decide"

\* RedisStatusCache.add_update: r.set(latest key, payload)
CacheSetLatest(p) ==
    /\ pc[p] = "set_latest"
    /\ latest' = [latest EXCEPT ![local[p].hypothesis_id] = <<local[p].update>>]
    /\ Goto(p, AfterCacheAddUpdate(p), local[p])
    /\ UNCHANGED <<now, history, inprogress, persisted, storeVars, auxVars, countVars>>

\* where the caller of add_update goes on: emit_task_update with its
\* envelope, any other caller is the worker and gets the return
AfterAddUpdate(p) ==
    IF local[p].op = "emit_task_update" THEN "build" ELSE "returned"

\* an add_update that marks the instance persisted when it does not finalize
Decide_MarksPersisted(p) ==
    /\ pc[p] = "decide"
    /\ IF ShouldPersist(local[p].update.state, local[p].update.task,
                        local[p].update.progress)
       THEN /\ Goto(p, "find", [local[p] EXCEPT !.finalize = TRUE])
            /\ UNCHANGED persisted
       ELSE /\ Goto(p, AfterAddUpdate(p), local[p])
            /\ persisted' = persisted \cup {local[p].hypothesis_id}
    /\ UNCHANGED <<now, history, latest, inprogress, storeVars, auxVars, countVars>>

\* "Persist to DB on completion or failure": call _persist_and_clear or return
Decide(p) ==
    /\ pc[p] = "decide"
    /\ IF ShouldPersist(local[p].update.state, local[p].update.task,
                        local[p].update.progress)
       THEN Goto(p, "find", [local[p] EXCEPT !.finalize = TRUE])
       ELSE Goto(p, AfterAddUpdate(p), local[p])
    /\ UNCHANGED <<now, cacheVars, storeVars, auxVars, countVars>>

\* ------------------------------------------------------------------------
\* StatusTracker._persist_and_clear
\* ------------------------------------------------------------------------
\* a call of _persist_and_clear that does not come from add_update
PersistAndClearCall(p, maxPersistCalls) ==
    /\ pc[p] = "idle"
    /\ nPersistCalls < maxPersistCalls
    /\ nPersistCalls' = nPersistCalls + 1
    /\ \E h \in HypIds :
        Goto(p, "find", [IdleLocal EXCEPT !.op = "_persist_and_clear",
                             !.hypothesis_id = h, !.finalize = TRUE])
    /\ UNCHANGED <<now, cacheVars, storeVars, auxVars, nRecords>>

\* db_history = self._task_handler.get_task_history(hypothesis_id) or []
DbFind(p) ==
    /\ pc[p] = "find"
    /\ Goto(p, "zrange", [local[p] EXCEPT !.db_history =
                              GetTaskHistory(task_updates, local[p].hypothesis_id)])
    /\ UNCHANGED <<now, cacheVars, storeVars, auxVars, countVars>>

\* new_history = self._cache.get_history(hypothesis_id) or [], then the
\* combining, deduplicating and sorting, which touch no store
CacheZrange(p) ==
    /\ pc[p] = "zrange"
    /\ LET new_history == ZRange(history[local[p].hypothesis_id])
       IN  Goto(p, "delete_many",
                [local[p] EXCEPT !.new_history = new_history,
                     !.final_history = FinalHistory(local[p].db_history, new_history)])
    /\ UNCHANGED <<now, cacheVars, storeVars, auxVars, countVars>>

\* save_task_history: delete_many({"hypothesis_id": hypothesis_id})
DbDeleteMany(p) ==
    /\ pc[p] = "delete_many"
    /\ task_updates' = DeleteMany(task_updates, local[p].hypothesis_id)
    /\ Goto(p, "insert_many", local[p])
    /\ UNCHANGED <<now, cacheVars, nextOid, auxVars, countVars>>

\* save_task_history: if task_history: insert_many([...])
DbInsertMany(p) ==
    /\ pc[p] = "insert_many"
    /\ LET result == InsertMany(task_updates, nextOid,
                         Documents(local[p].final_history, local[p].hypothesis_id))
       IN  /\ task_updates' = result.collection
           /\ nextOid' = result.nextOid
           /\ IF result.error
              THEN Goto(p, "raised", [local[p] EXCEPT !.raised = "BulkWriteError"])
              ELSE Goto(p, "del_history", local[p])
    /\ UNCHANGED <<now, cacheVars, auxVars, countVars>>

\* get_task_history raises: the store is unavailable
DbFindFails(p) ==
    /\ pc[p] = "find"
    /\ Goto(p, "raised", [local[p] EXCEPT !.raised = "PyMongoError"])
    /\ UNCHANGED <<now, cacheVars, storeVars, auxVars, countVars>>

\* delete_many raises and has deleted nothing
DbDeleteManyFails(p) ==
    /\ pc[p] = "delete_many"
    /\ Goto(p, "raised", [local[p] EXCEPT !.raised = "PyMongoError"])
    /\ UNCHANGED <<now, cacheVars, storeVars, auxVars, countVars>>

\* insert_many raises after it has inserted some of the documents, in their
\* order, and not all of them
DbInsertManyFails(p) ==
    /\ pc[p] = "insert_many"
    /\ LET documents == Documents(local[p].final_history, local[p].hypothesis_id)
       IN  /\ documents # <<>>
           /\ \E k \in 0..(Len(documents) - 1) :
                LET result == InsertMany(task_updates, nextOid,
                                         SubSeq(documents, 1, k))
                IN  /\ task_updates' = result.collection
                    /\ nextOid' = result.nextOid
    /\ Goto(p, "raised", [local[p] EXCEPT !.raised = "PyMongoError"])
    /\ UNCHANGED <<now, cacheVars, auxVars, countVars>>

\* clear_history: r.delete(history key)
CacheDelHistory(p) ==
    /\ pc[p] = "del_history"
    /\ history' = [history EXCEPT ![local[p].hypothesis_id] = {}]
    /\ Goto(p, "del_latest", local[p])
    /\ UNCHANGED <<now, latest, inprogress, persisted, storeVars, auxVars, countVars>>

\* a clear_history that deletes the latest key of every instance
CacheDelLatest_All(p) ==
    /\ pc[p] = "del_latest"
    /\ latest' = [h \in HypIds |-> <<>>]
    /\ Goto(p, "srem", local[p])
    /\ UNCHANGED <<now, history, inprogress, persisted, storeVars, auxVars, countVars>>

\* clear_history: r.delete(latest key)
CacheDelLatest(p) ==
    /\ pc[p] = "del_latest"
    /\ latest' = [latest EXCEPT ![local[p].hypothesis_id] = <<>>]
    /\ Goto(p, "srem", local[p])
    /\ UNCHANGED <<now, history, inprogress, persisted, storeVars, auxVars, countVars>>

\* a clear_history whose SREM names the persisted set
CacheSrem_FromPersisted(p) ==
    /\ pc[p] = "srem"
    /\ persisted' = persisted \ {local[p].hypothesis_id}
    /\ Goto(p, "sadd_persisted", local[p])
    /\ UNCHANGED <<now, history, latest, inprogress, storeVars, auxVars, countVars>>

\* clear_history: r.srem("hyp:inprogress:set", hyp_id)
CacheSrem(p) ==
    /\ pc[p] = "srem"
    /\ inprogress' = inprogress \ {local[p].hypothesis_id}
    /\ Goto(p, "sadd_persisted", local[p])
    /\ UNCHANGED <<now, history, latest, persisted, storeVars, auxVars, countVars>>

\* where the caller of _persist_and_clear goes on: recover_from_cache with
\* the next id of its loop, emit_task_update with its envelope (add_update
\* returns), any other call returns
AfterPersistAndClear(p) ==
    IF local[p].op = "recover_from_cache" THEN "next_id"
    ELSE IF local[p].op = "emit_task_update" THEN "build" ELSE "returned"

\* clear_history: r.sadd("hyp:persisted:set", hyp_id); the call returns
CacheSaddPersisted(p) ==
    /\ pc[p] = "sadd_persisted"
    /\ persisted' = persisted \cup {local[p].hypothesis_id}
    /\ Goto(p, AfterPersistAndClear(p), local[p])
    /\ UNCHANGED <<now, history, latest, inprogress, storeVars, auxVars, countVars>>

\* ------------------------------------------------------------------------
\* StatusTracker.recover_from_cache
\* ------------------------------------------------------------------------
\* list(members): the members of a set in any order
Orders(members) ==
    {ids \in [1..Cardinality(members) -> members] : Range(ids) = members}

\* the dict without any key
EmptyDict == BuildUpdate(NoNumber, None, None, NoNumber, None, None)

\* latest["timestamp"] = latest.get("timestamp", now), latest["state"] =
\* latest.get("state", FAILED), latest["progress"] = latest.get("progress", 0)
Patch(latest_update, timestamp) ==
    [latest_update EXCEPT
        !.timestamp = IF @ = NoNumber THEN timestamp ELSE @,
        !.state = IF @ = None THEN "failed" ELSE @,
        !.progress = IF @ = NoNumber THEN 0 ELSE @]

\* the call: ids = self._cache.list_inprogress()
RecoverFromCacheCall(p) ==
    /\ pc[p] = "idle"
    /\ \E ids \in Orders(inprogress) :
        Goto(p, IF ids = <<>> THEN "returned" ELSE "get_latest",
             [IdleLocal EXCEPT !.op = "recover_from_cache", !.ids = ids])
    /\ UNCHANGED <<now, cacheVars, storeVars, auxVars, countVars>>

\* latest = self._cache.get_latest(hyp_id); if latest: the three defaults, and
\* on to self._cache.add_update(hyp_id, latest); else on to _persist_and_clear
RecoverGetLatest(p) ==
    /\ pc[p] = "get_latest"
    /\ LET hyp_id == Head(local[p].ids)
       IN  IF latest[hyp_id] # <<>> /\ latest[hyp_id][1] # EmptyDict
           THEN Goto(p, "zadd", [local[p] EXCEPT !.hypothesis_id = hyp_id,
                                     !.update = Patch(latest[hyp_id][1], now),
                                     !.finalize = TRUE])
           ELSE Goto(p, "find", [local[p] EXCEPT !.hypothesis_id = hyp_id,
                                     !.update = NoUpdate, !.finalize = TRUE])
    /\ UNCHANGED <<now, cacheVars, storeVars, auxVars, countVars>>

\* for idx, hyp_id in enumerate(ids): the next id, or the return
RecoverNextId(p) ==
    /\ pc[p] = "next_id"
    /\ Goto(p, IF Tail(local[p].ids) = <<>> THEN "returned" ELSE "get_latest",
            [local[p] EXCEPT !.ids = Tail(@)])
    /\ UNCHANGED <<now, cacheVars, storeVars, auxVars, countVars>>

\* an unclean shutdown: the worker dies inside add_update, what it has written
\* stays in the stores
Crash(p) ==
    /\ local[p].op = "add_update"
    /\ pc[p] \notin {"idle", "returned", "raised"}
    /\ Goto(p, "idle", IdleLocal)
    /\ UNCHANGED <<now, cacheVars, storeVars, auxVars, countVars>>

\* ------------------------------------------------------------------------
\* StatusTracker.get_history, get_latest_state
\* ------------------------------------------------------------------------
GetHistoryCall(p) ==
    /\ pc[p] = "idle"
    /\ \E h \in HypIds :
        Goto(p, "gh_zrange", [IdleLocal EXCEPT !.op = "get_history",
                                  !.hypothesis_id = h])
    /\ UNCHANGED <<now, cacheVars, storeVars, auxVars, countVars>>

\* the members of the sorted set hyp:<id>:history; a key that was never
\* written holds none
CacheHistory(hypothesis_id) ==
    IF hypothesis_id \in DOMAIN history THEN history[hypothesis_id] ELSE {}

\* where the caller of get_history goes on: emit_task_update with add_update,
\* any other caller is the worker and gets the return
AfterGetHistory(p) ==
    IF local[p].op = "emit_task_update" THEN "record" ELSE "returned"

\* redis_history = self._cache.get_history(hypothesis_id) or []
GhZrange(p) ==
    /\ pc[p] = "gh_zrange"
    /\ Goto(p, "gh_sismember", [local[p] EXCEPT !.redis_history =
                                    ZRange(CacheHistory(local[p].hypothesis_id))])
    /\ UNCHANGED <<now, cacheVars, storeVars, auxVars, countVars>>

\* ... if self._cache.is_persisted(hypothesis_id) else []: without the
\* persisted mark db_history is [] and the result is computed at once
GhIsPersisted(p) ==
    /\ pc[p] = "gh_sismember"
    /\ IF local[p].hypothesis_id \in persisted
       THEN Goto(p, "gh_find", local[p])
       ELSE Goto(p, AfterGetHistory(p),
                 [local[p] EXCEPT !.ret = SortedHistory(local[p].redis_history, <<>>)])
    /\ UNCHANGED <<now, cacheVars, storeVars, auxVars, countVars>>

\* db_history = self._task_handler.get_task_history(hypothesis_id), then the
\* combining, deduplicating and sorting
GhFind(p) ==
    /\ pc[p] = "gh_find"
    /\ LET db_history == GetTaskHistory(task_updates, local[p].hypothesis_id)
       IN  Goto(p, AfterGetHistory(p),
                [local[p] EXCEPT !.db_history = db_history,
                     !.ret = SortedHistory(local[p].redis_history, db_history)])
    /\ UNCHANGED <<now, cacheVars, storeVars, auxVars, countVars>>

\* a get_latest_state that falls back to the last stored update of the
\* instance when the cache has no latest pointer
GetLatestState_FromStore(p) ==
    /\ pc[p] = "idle"
    /\ \E h \in HypIds :
        LET stored == GetTaskHistory(task_updates, h)
        IN  Goto(p, "returned", [IdleLocal EXCEPT !.op = "get_latest_state",
                !.hypothesis_id = h,
                !.ret = IF latest[h] = <<>> /\ stored # <<>>
                        THEN <<stored[Len(stored)]>> ELSE latest[h]])
    /\ UNCHANGED <<now, cacheVars, storeVars, auxVars, countVars>>

\* get_latest_state: latest = self._cache.get_latest(hypothesis_id)
GetLatestState(p) ==
    /\ pc[p] = "idle"
    /\ \E h \in HypIds :
        Goto(p, "returned", [IdleLocal EXCEPT !.op = "get_latest_state",
                                 !.hypothesis_id = h, !.ret = latest[h]])
    /\ UNCHANGED <<now, cacheVars, storeVars, auxVars, countVars>>

\* ------------------------------------------------------------------------
\* emit_task_update (utils.py)
\* ------------------------------------------------------------------------
\* seq[:n]
LastN_First(seq, n) ==
    IF Len(seq) <= n THEN seq ELSE SubSeq(seq, 1, n)

\* seq[-n:]
LastN(seq, n) ==
    IF Len(seq) <= n THEN seq ELSE SubSeq(seq, Len(seq) - n + 1, Len(seq))

\* [entry for entry in task_history if entry["state"] == "completed"]
FilteredHistory(task_history) ==
    LET IsCompletedEntry(entry) == entry.state = "completed"
    IN  SelectSeq(task_history, IsCompletedEntry)

\* the completion labels of a Completed update: the status and the progress
\* the envelope gets, or the envelope as it is
CompletionStatus(update, task_name, progress) ==
    IF \/ task_name = "Creating enrich data"
       \/ task_name = "Verifying existence of enrichment data" /\ progress = 80
    THEN [update EXCEPT !.status = "Enrichment_completed", !.progress = 80,
                        !.float = FALSE]
    ELSE IF \/ task_name = "Generating hypothesis"
            \/ task_name = "Verifying existence of hypothesis data" /\ progress = 100
    THEN [update EXCEPT !.status = "Hypothesis_completed", !.progress = 100,
                        !.float = FALSE]
    ELSE update

\* the dict emit_task_update publishes; an absent next_task, error or status
\* is None
Envelope(a, timestamp, progress, float, latest_5_started_tasks) ==
    LET update == [hypothesis_id |-> a.hypothesis_id, timestamp |-> timestamp,
                   task |-> a.task_name, state |-> a.state, progress |-> progress,
                   float |-> float, task_history |-> latest_5_started_tasks,
                   next_task |-> IF Truthy(a.next_task) THEN a.next_task ELSE None,
                   error |-> IF Truthy(a.error) THEN a.error ELSE None,
                   status |-> IF Truthy(a.error) THEN "failed" ELSE None]
    IN  IF a.state = "completed"
        THEN CompletionStatus(update, a.task_name, progress)
        ELSE IF a.state = "failed"
        THEN [update EXCEPT !.status = "failed", !.error = a.error]
        ELSE update

\* the call: task_history = status_tracker.get_history(hypothesis_id) begins
EmitCall(p, argSet, maxEmits) ==
    /\ pc[p] = "idle"
    /\ nRecords < maxEmits
    /\ nRecords' = nRecords + 1
    /\ \E a \in argSet :
        Goto(p, "gh_zrange", [IdleLocal EXCEPT !.op = "emit_task_update",
                                  !.hypothesis_id = a.hypothesis_id, !.args = a])
    /\ UNCHANGED <<now, cacheVars, storeVars, auxVars, nPersistCalls>>

\* an emit_task_update that computes the progress over the history with the
\* update it is about to record
EmitRecord_CountsOwn(p) ==
    /\ pc[p] = "record"
    /\ LET a == local[p].args
           task_history == local[p].ret
           own == BuildUpdate(now, a.task_name, a.state, 0, a.details, a.error)
           progress == IF a.progress = 0
                       THEN CalculateProgress(Append(task_history, own))
                       ELSE a.progress
           loc == [local[p] EXCEPT !.latest_5 = LastN(FilteredHistory(task_history), 5),
                                   !.progress = progress,
                                   !.float = (a.progress = 0)]
       IN  IF RaisesValueError(a.hypothesis_id, a.state)
           THEN Goto(p, "raised", [loc EXCEPT !.raised = "ValueError"])
           ELSE Goto(p, "zadd",
                     [loc EXCEPT !.update =
                          [BuildUpdate(now, a.task_name, a.state, progress,
                                       a.details, a.error)
                               EXCEPT !.float = (a.progress = 0)]])
    /\ UNCHANGED <<now, cacheVars, storeVars, auxVars, countVars>>

\* the filter of the history, the progress, and the call of add_update:
\* validation of the arguments and construction of the update dict
EmitRecord(p) ==
    /\ pc[p] = "record"
    /\ LET a == local[p].args
           task_history == local[p].ret
           progress == IF a.progress = 0 THEN CalculateProgress(task_history)
                       ELSE a.progress
           loc == [local[p] EXCEPT !.latest_5 = LastN(FilteredHistory(task_history), 5),
                                   !.progress = progress,
                                   !.float = (a.progress = 0)]
       IN  IF RaisesValueError(a.hypothesis_id, a.state)
           THEN Goto(p, "raised", [loc EXCEPT !.raised = "ValueError"])
           ELSE Goto(p, "zadd",
                     [loc EXCEPT !.update =
                          [BuildUpdate(now, a.task_name, a.state, progress,
                                       a.details, a.error)
                               EXCEPT !.float = (a.progress = 0)]])
    /\ UNCHANGED <<now, cacheVars, storeVars, auxVars, countVars>>

\* the envelope, with the labels of the milestones and of the failures
EmitBuild(p) ==
    /\ pc[p] = "build"
    /\ Goto(p, "emit", [local[p] EXCEPT !.envelope =
                            Envelope(local[p].args, now, local[p].progress,
                                     local[p].float, local[p].latest_5)])
    /\ UNCHANGED <<now, cacheVars, storeVars, auxVars, countVars>>

\* max_retries = 3
max_retries == 3

\* socketio.emit('task_update', update, room=room) succeeds: break, and
\* socketio.sleep(0) after the loop
EmitPublished(p) ==
    /\ pc[p] = "emit"
    /\ local[p].attempt < max_retries
    /\ Goto(p, "returned", [local[p] EXCEPT !.attempt = @ + 1, !.published = TRUE])
    /\ UNCHANGED <<now, cacheVars, storeVars, auxVars, countVars>>

\* a loop that pauses after every failed attempt and lets the last failure go
EmitFailed_Swallowed(p) ==
    /\ pc[p] = "emit"
    /\ local[p].attempt < max_retries
    /\ Goto(p, IF local[p].attempt = max_retries - 1 THEN "returned" ELSE "sleep",
            [local[p] EXCEPT !.attempt = @ + 1])
    /\ UNCHANGED <<now, cacheVars, storeVars, auxVars, countVars>>

\* socketio.emit raises: the last attempt passes the exception on, any other
\* goes to the pause
EmitFailed(p) ==
    /\ pc[p] = "emit"
    /\ local[p].attempt < max_retries
    /\ IF local[p].attempt = max_retries - 1
       THEN Goto(p, "raised", [local[p] EXCEPT !.attempt = @ + 1,
                                               !.raised = "Exception"])
       ELSE Goto(p, "sleep", [local[p] EXCEPT !.attempt = @ + 1])
    /\ UNCHANGED <<now, cacheVars, storeVars, auxVars, countVars>>

\* socketio.sleep(1), then the next attempt
EmitSleep(p) ==
    /\ pc[p] = "sleep"
    /\ Goto(p, "emit", [local[p] EXCEPT !.sleeps = @ + 1])
    /\ UNCHANGED <<now, cacheVars, storeVars, auxVars, countVars>>

\* ------------------------------------------------------------------------
\* StatusTracker.calculate_progress, called by a worker
\* ------------------------------------------------------------------------
\* calculate_progress(task_history) on the history of an instance as
\* get_history gives it
CalculateProgressOf(p) ==
    /\ pc[p] = "idle"
    /\ \E h \in HypIds :
        LET task_history == SortedHistory(ZRange(history[h]),
                                IF h \in persisted
                                THEN GetTaskHistory(task_updates, h) ELSE <<>>)
        IN  Goto(p, "returned", [IdleLocal EXCEPT !.op = "calculate_progress",
                                     !.hypothesis_id = h,
                                     !.ret = task_history,
                                     !.progress = CalculateProgress(task_history),
                                     !.float = TRUE])
    /\ UNCHANGED <<now, cacheVars, storeVars, auxVars, countVars>>

\* the call of worker p is over: it has returned or raised
Return(p) ==
    /\ pc[p] \in {"returned", "raised"}
    /\ Goto(p, "idle", IdleLocal)
    /\ UNCHANGED <<now, cacheVars, storeVars, auxVars, countVars>>

\* ------------------------------------------------------------------------
\* Specifications
\* ------------------------------------------------------------------------
\* one step of a call of worker p that writes: add_update, _persist_and_clear
WriteStep(p, argSet, maxRecords, maxPersistCalls) ==
    \/ AddUpdateCall(p, argSet, maxRecords)
    \/ CacheZadd(p)
    \/ CacheSaddInprogress(p)
    \/ CacheSetLatest(p)
    \/ Decide(p)
    \/ PersistAndClearCall(p, maxPersistCalls)
    \/ DbFind(p)
    \/ CacheZrange(p)
    \/ DbDeleteMany(p)
    \/ DbInsertMany(p)
    \/ CacheDelHistory(p)
    \/ CacheDelLatest(p)
    \/ CacheSrem(p)
    \/ CacheSaddPersisted(p)
    \/ Return(p)

\* one step of a call of worker p that reads: get_history, get_latest_state
ReadStep(p) ==
    \/ GetHistoryCall(p)
    \/ GhZrange(p)
    \/ GhIsPersisted(p)
    \/ GhFind(p)
    \/ GetLatestState(p)

\* the worker of the specifications in which the calls are made one at a time
Caller == "w1"

\* bookkeeping of pre: the stores as they are when worker p begins a call
Snapshot(p) ==
    pre' = IF pc[p] = "idle" /\ pc'[p] # "idle" THEN [pre EXCEPT ![p] = Stores]
           ELSE IF pc'[p] = "idle" THEN [pre EXCEPT ![p] = InitStores]
           ELSE pre

\* the calls are made one at a time, by one worker
Next ==
    \/ Tick /\ UNCHANGED pre
    \/ WriteStep(Caller, SeqArgs, MaxRecords, MaxPersistCalls) /\ Snapshot(Caller)
    \/ ReadStep(Caller) /\ Snapshot(Caller)

Spec == Init /\ [][Next]_vars

\* add_update calls only, one at a time, over all combinations of arguments
RecordStep(p, argSet, maxRecords) ==
    \/ AddUpdateCall(p, argSet, maxRecords)
    \/ CacheZadd(p)
    \/ CacheSaddInprogress(p)
    \/ CacheSetLatest(p)
    \/ Decide(p)
    \/ DbFind(p)
    \/ CacheZrange(p)
    \/ DbDeleteMany(p)
    \/ DbInsertMany(p)
    \/ CacheDelHistory(p)
    \/ CacheDelLatest(p)
    \/ CacheSrem(p)
    \/ CacheSaddPersisted(p)
    \/ Return(p)

RecordNext ==
    \/ Tick /\ UNCHANGED pre
    \/ RecordStep(Caller, WideArgs, MaxWideRecords) /\ Snapshot(Caller)

RecordSpec == Init /\ [][RecordNext]_vars

\* two workers call add_update concurrently, with the _persist_and_clear
\* calls add_update makes
ConcNext ==
    \/ Tick /\ UNCHANGED pre
    \/ \E p \in Procs :
        /\ RecordStep(p, ConcArgs, MaxConcRecords)
        /\ UNCHANGED <<pre, nPersistCalls>>

ConcSpec == Init /\ [][ConcNext]_vars

\* worker p may overlap only a _persist_and_clear call with another
\* _persist_and_clear call
OnlyFinalizeOverlaps(p) ==
    \A q \in Procs \ {p} :
        \/ pc[q] = "idle"
        \/ local[q].op = "_persist_and_clear" /\ local'[p].op \in {"_persist_and_clear", None}

\* add_update calls run alone, _persist_and_clear calls of two workers race
RaceNext ==
    \/ Tick /\ UNCHANGED pre
    \/ \E p \in Procs :
        /\ WriteStep(p, ConcArgs, MaxRaceRecords, MaxRacePersistCalls)
        /\ OnlyFinalizeOverlaps(p)
        /\ Snapshot(p)

RaceSpec == Init /\ [][RaceNext]_vars

\* ------------------------------------------------------------------------
\* calculate_progress on the histories of pipeline runs
\* ------------------------------------------------------------------------
\* the tasks in the order the pipeline runs them: the enrichment flow, the
\* hypothesis flow, and a task name that is in neither weight table
PipelineTasks ==
    <<"Verifying existence of enrichment data", "Getting candidate genes",
      "Predicting causal gene", "Getting relevant gene proof",
      "Creating enrich data",
      "Verifying existence of hypothesis data", "Getting enrichement data",
      "Getting gene data", "Querying gene data", "Querying variant data",
      "Querying phenotype data", "Generating graph summary",
      "Generating hypothesis",
      "Getting enrichment data">>

\* the first tasks of the two flows
FlowStarts == {"Verifying existence of enrichment data",
               "Verifying existence of hypothesis data"}

\* the states of the entries of the histories
HistoryStates == {"completed", "failed"}

\* the tasks whose entry can follow a history: a flow starts, or the task
\* after the one of the last entry runs, the first after the last
FollowingTasks(task_history) ==
    IF task_history = <<>> THEN FlowStarts
    ELSE LET k == Rank(PipelineTasks, task_history[Len(task_history)].task)
         IN  {PipelineTasks[(k % Len(PipelineTasks)) + 1]}

\* calculate_progress(task_history + [entry]), after calculate_progress of
\* task_history
CalculateProgressCall ==
    /\ Len(calc.task_history) < MaxHistoryLen
    /\ \E task_name \in FollowingTasks(calc.task_history), state \in HistoryStates :
        LET entry == BuildUpdate(Len(calc.task_history) + 1, task_name, state,
                                 0, None, None)
        IN  calc' = [task_history |-> Append(calc.task_history, entry),
                     progress |-> CalculateProgress(Append(calc.task_history, entry)),
                     before |-> CalculateProgress(calc.task_history)]
    /\ UNCHANGED <<now, cacheVars, storeVars, pc, local, pre, recorded,
                   lastRecorded, countVars>>

ProgressNext == CalculateProgressCall

ProgressSpec == Init /\ [][ProgressNext]_vars

\* ------------------------------------------------------------------------
\* recover_from_cache after unclean shutdowns
\* ------------------------------------------------------------------------
\* latest updates that lack timestamp, state or progress
PartialLatests ==
    {BuildUpdate(timestamp, "Getting candidate genes", state, progress, None, None) :
        timestamp \in {NoNumber, 1}, state \in {None, "started"},
        progress \in {NoNumber, 0}}
    \ {BuildUpdate(1, "Getting candidate genes", "started", 0, None, None)}

\* what the cache holds for instance "h2" at startup: nothing; or a latest
\* update that lacks fields, set by another writer of the key; or such an
\* update as RedisStatusCache.add_update writes it when it is given a dict
\* that lacks state or progress, stamped and in the history as well
DanglingStates ==
    {[latest |-> <<>>, history |-> {}, inprogress |-> {}]}
    \cup {[latest |-> <<update>>, history |-> {}, inprogress |-> {"h2"}] :
            update \in PartialLatests}
    \cup {[latest |-> <<update>>, history |-> {update}, inprogress |-> {"h2"}] :
            update \in {u \in PartialLatests : u.timestamp # NoNumber}}

RecoverInit ==
    /\ now = 1
    /\ \E dangling \in DanglingStates :
        /\ history = [h \in HypIds |-> IF h = "h2" THEN dangling.history ELSE {}]
        /\ latest = [h \in HypIds |-> IF h = "h2" THEN dangling.latest ELSE <<>>]
        /\ inprogress = dangling.inprogress
    /\ persisted = {}
    /\ task_updates = <<>>
    /\ nextOid = 1
    /\ pc = [p \in Procs |-> "idle"]
    /\ local = [p \in Procs |-> IdleLocal]
    /\ pre = [p \in Procs |-> InitStores]
    /\ recorded = {}
    /\ lastRecorded = [h \in HypIds |-> <<>>]
    /\ calc = NoCalc
    /\ nRecords = 0
    /\ nPersistCalls = 0

\* one step of a recover_from_cache call of worker p
RecoverStep(p) ==
    \/ RecoverFromCacheCall(p)
    \/ RecoverGetLatest(p)
    \/ RecoverNextId(p)

\* add_update calls that an unclean shutdown can cut short, and
\* recover_from_cache calls, one call at a time
RecoverNext ==
    \/ Tick /\ UNCHANGED pre
    \/ RecordStep(Caller, RecoverArgs, MaxRecoverRecords) /\ Snapshot(Caller)
    \/ Crash(Caller) /\ Snapshot(Caller)
    \/ RecoverStep(Caller) /\ Snapshot(Caller)

RecoverSpec == RecoverInit /\ [][RecoverNext]_vars

\* ------------------------------------------------------------------------
\* emit_task_update calls, one at a time
\* ------------------------------------------------------------------------
\* one step of an emit_task_update call of worker p
EmitStep(p, argSet, maxEmits) ==
    \/ EmitCall(p, argSet, maxEmits)
    \/ GhZrange(p)
    \/ GhIsPersisted(p)
    \/ GhFind(p)
    \/ EmitRecord(p)
    \/ CacheZadd(p)
    \/ CacheSaddInprogress(p)
    \/ CacheSetLatest(p)
    \/ Decide(p)
    \/ DbFind(p)
    \/ CacheZrange(p)
    \/ DbDeleteMany(p)
    \/ DbInsertMany(p)
    \/ CacheDelHistory(p)
    \/ CacheDelLatest(p)
    \/ CacheSrem(p)
    \/ CacheSaddPersisted(p)
    \/ EmitBuild(p)
    \/ EmitPublished(p)
    \/ EmitFailed(p)
    \/ EmitSleep(p)
    \/ Return(p)

EmitNext ==
    \/ Tick /\ UNCHANGED pre
    \/ EmitStep(Caller, EmitArgs, MaxEmits) /\ Snapshot(Caller)

EmitSpec == Init /\ [][EmitNext]_vars

\* what an earlier run of instance "h1" left: nothing, or the finalized
\* history of a run whose enrichment was completed
EarlierRuns ==
    {<<>>, <<BuildUpdate(0, "Creating enrich data", "completed", 80, None, None)>>}

WideEmitInit ==
    /\ now = 1
    /\ history = [h \in HypIds |-> {}]
    /\ latest = [h \in HypIds |-> <<>>]
    /\ inprogress = {}
    /\ \E earlier \in EarlierRuns :
        LET result == InsertMany(<<>>, 1, Documents(earlier, "h1"))
        IN  /\ persisted = IF earlier = <<>> THEN {} ELSE {"h1"}
            /\ task_updates = result.collection
            /\ nextOid = result.nextOid
    /\ pc = [p \in Procs |-> "idle"]
    /\ local = [p \in Procs |-> IdleLocal]
    /\ pre = [p \in Procs |-> InitStores]
    /\ recorded = {}
    /\ lastRecorded = [h \in HypIds |-> <<>>]
    /\ calc = NoCalc
    /\ nRecords = 0
    /\ nPersistCalls = 0

\* one emit_task_update call over all combinations of arguments
WideEmitNext ==
    \/ Tick /\ UNCHANGED pre
    \/ EmitStep(Caller, WideEmitArgs, MaxWideEmits) /\ Snapshot(Caller)

WideEmitSpec == WideEmitInit /\ [][WideEmitNext]_vars

\* ------------------------------------------------------------------------
\* add_update calls that pass details and error, one at a time
\* ------------------------------------------------------------------------
FieldNext ==
    \/ Tick /\ UNCHANGED pre
    \/ RecordStep(Caller, FieldArgs, MaxFieldRecords) /\ Snapshot(Caller)

FieldSpec == Init /\ [][FieldNext]_vars

\* ------------------------------------------------------------------------
\* every operation of the tracker, one call at a time, after a startup that
\* can find dangling cache entries
\* ------------------------------------------------------------------------
ResidencyNext ==
    \/ Tick /\ UNCHANGED pre
    \/ RecordStep(Caller, ResidencyArgs, MaxResidencyRecords) /\ Snapshot(Caller)
    \/ ReadStep(Caller) /\ Snapshot(Caller)
    \/ Crash(Caller) /\ Snapshot(Caller)
    \/ RecoverStep(Caller) /\ Snapshot(Caller)

ResidencySpec == RecoverInit /\ [][ResidencyNext]_vars

\* ------------------------------------------------------------------------
\* emit_task_update calls on an instance whose earlier runs left a history
\* ------------------------------------------------------------------------
\* the tasks of an earlier run, in the order of the pipeline
EarlierTasks ==
    <<"Verifying existence of enrichment data", "Getting candidate genes",
      "Predicting causal gene", "Getting relevant gene proof",
      "Creating enrich data", "Verifying existence of hypothesis data",
      "Getting gene data">>

\* the histories an earlier run of instance "h1" stored: one update per task,
\* each Completed or Failed
LongRuns ==
    {[k \in 1..Len(EarlierTasks) |->
          BuildUpdate(0, EarlierTasks[k], states[k], 0, None, None)] :
        states \in [1..Len(EarlierTasks) -> {"completed", "failed"}]}

WindowInit ==
    /\ now = 1
    /\ history = [h \in HypIds |-> {}]
    /\ latest = [h \in HypIds |-> <<>>]
    /\ inprogress = {}
    /\ persisted = {"h1"}
    /\ \E earlier \in LongRuns :
        LET result == InsertMany(<<>>, 1, Documents(earlier, "h1"))
        IN  /\ task_updates = result.collection
            /\ nextOid = result.nextOid
    /\ pc = [p \in Procs |-> "idle"]
    /\ local = [p \in Procs |-> IdleLocal]
    /\ pre = [p \in Procs |-> InitStores]
    /\ recorded = {}
    /\ lastRecorded = [h \in HypIds |-> <<>>]
    /\ calc = NoCalc
    /\ nRecords = 0
    /\ nPersistCalls = 0

WindowNext ==
    \/ Tick /\ UNCHANGED pre
    \/ EmitStep(Caller, EmitArgs, MaxWindowEmits) /\ Snapshot(Caller)

WindowSpec == WindowInit /\ [][WindowNext]_vars

\* ------------------------------------------------------------------------
\* add_update calls, one at a time, with a store that can fail
\* ------------------------------------------------------------------------
\* the arguments offered to a worker whose store can fail
FailArgs == Args({"h1"}, {0}, {"Creating enrich data", "Getting candidate genes"},
                {"started", "completed"})

FailNext ==
    \/ Tick /\ UNCHANGED pre
    \/ RecordStep(Caller, FailArgs, MaxFailRecords) /\ Snapshot(Caller)
    \/ DbFindFails(Caller) /\ Snapshot(Caller)
    \/ DbDeleteManyFails(Caller) /\ Snapshot(Caller)
    \/ DbInsertManyFails(Caller) /\ Snapshot(Caller)

FailSpec == Init /\ [][FailNext]_vars

\* ------------------------------------------------------------------------
\* the calls of Spec and calculate_progress, one at a time
\* ------------------------------------------------------------------------
FrameNext ==
    \/ Tick /\ UNCHANGED pre
    \/ WriteStep(Caller, SeqArgs, MaxRecords, MaxPersistCalls) /\ Snapshot(Caller)
    \/ ReadStep(Caller) /\ Snapshot(Caller)
    \/ CalculateProgressOf(Caller) /\ Snapshot(Caller)

FrameSpec == Init /\ [][FrameNext]_vars

\* ------------------------------------------------------------------------
\* Properties
\* ------------------------------------------------------------------------
\* no call is in flight
AllIdle == \A p \in Procs : pc[p] = "idle"

\* the StepUpdates the collection holds for an instance, in natural order
Stored(hypothesis_id) == StepUpdates(Find(task_updates, hypothesis_id))

\* the (task, timestamp) keys of a set of updates
Keys(updates) == {Key(update) : update \in updates}

\* no two updates that were recorded for one instance have the same key
RecordedKeysDistinct ==
    \A r1, r2 \in recorded : r1[1] = r2[1] /\ Key(r1[2]) = Key(r2[2]) => r1 = r2

\* C1: no update is lost in transit between cache and store.  For every
\* interleaving of add_update calls and the _persist_and_clear calls they make,
\* once all calls have returned every update that an add_update call appended
\* to the cache is in the cache history or in the collection of its instance.
\* (Stated for the updates whose (task, timestamp) key no other recorded update
\* shares, so that the replacement of an update by a later one of the same key
\* is not counted as a loss.)
C1_NoUpdateLostInTransit ==
    AllIdle /\ RecordedKeysDistinct =>
        \A r \in recorded : r[2] \in history[r[1]] \cup Range(Stored(r[1]))

\* the updates of a history, without the keys the collection adds
Updates(task_history) == Range(StepUpdates(task_history))

\* no two entries of a history have the same (task, timestamp) key
NoDuplicateKeys(task_history) ==
    \A j, k \in 1..Len(task_history) :
        Key(task_history[j]) = Key(task_history[k]) => j = k

\* a history is sorted ascending by timestamp
IsSorted(task_history) ==
    \A j, k \in 1..Len(task_history) :
        j < k => task_history[j].timestamp <= task_history[k].timestamp

\* result is a de-duplicated merge of a stored and a cached set of updates:
\* it has every key of the two and no other, each key once, and the update
\* of a key comes from the cache whenever the cache has the key
IsMergeOf(result, stored, cached) ==
    /\ NoDuplicateKeys(result)
    /\ Keys(Updates(result)) = Keys(stored) \cup Keys(cached)
    /\ \A update \in Updates(result) :
        \/ update \in cached
        \/ update \in stored /\ Key(update) \notin Keys(cached)

\* the updates the collection held for an instance in the snapshot of worker p
PreStored(p, hypothesis_id) ==
    Updates(Find(pre[p].task_updates, hypothesis_id))

\* both workers have returned from _persist_and_clear calls for one instance
\* that began with the stores in the same state
BothFinalizedSameInstance ==
    /\ \A p \in Procs : pc[p] = "returned" /\ local[p].op = "_persist_and_clear"
    /\ \A p, q \in Procs :
        local[p].hypothesis_id = local[q].hypothesis_id /\ pre[p] = pre[q]

\* C2: two _persist_and_clear calls racing on one instance are benign.  For
\* every interleaving of their steps, once both have returned the collection
\* holds exactly the de-duplicated merge of the stored history and the cache
\* history that existed before the race: no update is missing and no
\* (task, timestamp) key is stored twice.
C2_FinalizeRaceBenign ==
    BothFinalizedSameInstance =>
        \A p \in Procs :
            LET h == local[p].hypothesis_id
            IN  IsMergeOf(Find(task_updates, h), PreStored(p, h), pre[p].history[h])

\* StatusTracker.get_history run on the present stores by a caller that no
\* other call interleaves with
GetHistory(hypothesis_id) ==
    SortedHistory(ZRange(history[hypothesis_id]),
                  IF hypothesis_id \in persisted
                  THEN GetTaskHistory(task_updates, hypothesis_id) ELSE <<>>)

\* the call of the caller has run _persist_and_clear and has returned
FinalizeReturned ==
    /\ pc[Caller] = "returned"
    /\ local[Caller].finalize

\* the cache history _persist_and_clear of the caller found: the history of
\* the snapshot and, in an add_update call, the update of the call
PreCached ==
    pre[Caller].history[local[Caller].hypothesis_id] \cup
        (IF local[Caller].op = "add_update" THEN {local[Caller].update} ELSE {})

\* C3 as stated: an instance is never in both the in-progress set and the
\* persisted set, and once it is persisted no call puts it back into the
\* in-progress set.
C3_ResidencyExclusive ==
    [][/\ inprogress \cap persisted = {}
       /\ \A h \in persisted : h \in inprogress' => h \in inprogress]_vars

\* C3 as amended: persisted is final, an instance that is in the persisted
\* set never leaves it.  An instance enters the persisted set only when it is
\* not in the in-progress set, and a persisted instance enters the in-progress
\* set again only by the SADD of a later add_update call.
C3_PersistedIsFinal ==
    [][\A h \in HypIds :
        /\ h \in persisted => h \in persisted'
        /\ h \in persisted' \ persisted => h \notin inprogress'
        /\ h \in persisted /\ h \in inprogress' \ inprogress =>
              pc[Caller] = "sadd_inprogress" /\ local[Caller].hypothesis_id = h]_vars

\* a persisted instance is back in the in-progress set after a later add_update
C3_Witness ==
    /\ pc[Caller] = "returned"
    /\ local[Caller].op = "add_update"
    /\ local[Caller].hypothesis_id \in pre[Caller].persisted
    /\ local[Caller].hypothesis_id \in inprogress \cap persisted

\* C4: postcondition of a _persist_and_clear that runs without interference.
\* The collection holds for the instance the merge of what it held before and
\* of the cache history, keyed by (task, timestamp), sorted ascending by
\* timestamp, in place of what it held before; the cache history of the
\* instance is empty, its latest pointer is absent, the instance is not in the
\* in-progress set and it is in the persisted set.
C4_FinalizePostcondition ==
    FinalizeReturned =>
        LET h == local[Caller].hypothesis_id
        IN  /\ IsMergeOf(Find(task_updates, h), PreStored(Caller, h), PreCached)
            /\ IsSorted(Find(task_updates, h))
            /\ history[h] = {}
            /\ latest[h] = <<>>
            /\ h \notin inprogress
            /\ h \in persisted

\* a _persist_and_clear has merged a stored history with a cache history
C4_Witness ==
    /\ FinalizeReturned
    /\ PreStored(Caller, local[Caller].hypothesis_id) # {}
    /\ PreCached # {}
    /\ Len(Find(task_updates, local[Caller].hypothesis_id)) >= 2

\* the caller has returned from a _persist_and_clear call that began in the
\* state a _persist_and_clear of the same instance leaves, with no add_update
\* for the instance in between
SecondFinalizeReturned ==
    /\ pc[Caller] = "returned"
    /\ local[Caller].op = "_persist_and_clear"
    /\ local[Caller].hypothesis_id \in pre[Caller].persisted
    /\ local[Caller].hypothesis_id \notin pre[Caller].inprogress
    /\ pre[Caller].history[local[Caller].hypothesis_id] = {}
    /\ pre[Caller].latest[local[Caller].hypothesis_id] = <<>>

\* C5: _persist_and_clear is idempotent.  A second run for the same instance
\* with no add_update in between leaves the stored history of the instance,
\* the in-progress set and the persisted set as the first run left them.
C5_FinalizeIdempotent ==
    SecondFinalizeReturned =>
        LET h == local[Caller].hypothesis_id
        IN  /\ GetTaskHistory(task_updates, h) = GetTaskHistory(pre[Caller].task_updates, h)
            /\ inprogress = pre[Caller].inprogress
            /\ persisted = pre[Caller].persisted

\* a second _persist_and_clear has rewritten a stored history that is not empty
C5_Witness ==
    /\ SecondFinalizeReturned
    /\ Find(task_updates, local[Caller].hypothesis_id) # <<>>

\* the add_update call of the caller has passed its persist decision
Decided ==
    /\ local[Caller].op = "add_update"
    /\ pc[Caller] \notin {"zadd", "sadd_inprogress", "set_latest", "decide", "raised"}

\* the phase-terminal markers: state Completed or Failed, and task
\* "Creating enrich data", or "Generating hypothesis", or a task that starts
\* with "Verifying existence" together with progress 80
IsPhaseTerminal(update) ==
    /\ update.state = "completed" \/ update.state = "failed"
    /\ \/ update.task = "Creating enrich data"
       \/ update.task = "Generating hypothesis"
       \/ StartsWithVerifyingExistence(update.task) /\ update.progress = 80

FirstNonTerminalRecord ==
    /\ local[Caller].op = "add_update"
    /\ local[Caller].hypothesis_id \notin pre[Caller].inprogress \cup pre[Caller].persisted
    /\ pre[Caller].history[local[Caller].hypothesis_id] = {}
    /\ ~IsPhaseTerminal(local[Caller].update)

\* C7: every add_update call with valid input, whatever its state, has
\* appended the update to the cache history, added the instance to the
\* in-progress set and set the latest pointer to the update when it comes to
\* the persist decision; after a first update of an untracked instance that is
\* no marker, the instance is in the in-progress set and get_history returns
\* exactly that one entry.
C7_RecordWritesCache ==
    /\ pc[Caller] = "decide" =>
          /\ local[Caller].update \in history[local[Caller].hypothesis_id]
          /\ local[Caller].hypothesis_id \in inprogress
          /\ latest[local[Caller].hypothesis_id] = <<local[Caller].update>>
    /\ pc[Caller] = "returned" /\ FirstNonTerminalRecord =>
          /\ local[Caller].hypothesis_id \in inprogress
          /\ GetHistory(local[Caller].hypothesis_id) = <<local[Caller].update>>

\* a first Retrying update of an untracked instance has returned
C7_Witness ==
    /\ pc[Caller] = "returned"
    /\ FirstNonTerminalRecord
    /\ local[Caller].update.state = "retrying"

\* C8: add_update raises ValueError when the hypothesis id is empty or the
\* state is none of the four TaskStates, in such a call nothing is written to
\* the cache or to the collection, and no call with such arguments gets past
\* the validation.
C8_InvalidInputWritesNothing ==
    /\ pc[Caller] = "raised" /\ local[Caller].raised = "ValueError" =>
          Stores = pre[Caller]
    /\ local[Caller].op = "add_update" /\ pc[Caller] # "raised" =>
          /\ local[Caller].hypothesis_id # ""
          /\ local[Caller].update.state \in TaskState

\* an add_update with an empty id has raised while the stores hold updates
C8_Witness ==
    /\ pc[Caller] = "raised"
    /\ local[Caller].raised = "ValueError"
    /\ local[Caller].hypothesis_id = ""
    /\ task_updates # <<>>
    /\ inprogress # {}

\* the caller has returned from get_history
GetHistoryReturned ==
    /\ pc[Caller] = "returned"
    /\ local[Caller].op = "get_history"

\* result is a de-duplicated merge of a stored and a cached set of updates,
\* whichever of the two the update of a shared key comes from
IsDedupMergeOf(result, stored, cached) ==
    /\ NoDuplicateKeys(result)
    /\ Keys(Updates(result)) = Keys(stored) \cup Keys(cached)
    /\ Updates(result) \subseteq stored \cup cached

\* the first part of C9: what get_history returns is the merge of the stored
\* history and the cache history for a persisted instance and the cache
\* history alone for any other, without duplicate keys and sorted
GetHistoryIsMerge ==
    GetHistoryReturned =>
        LET h == local[Caller].hypothesis_id
        IN  /\ IsDedupMergeOf(local[Caller].ret,
                   IF h \in persisted THEN Range(Stored(h)) ELSE {}, history[h])
            /\ IsSorted(local[Caller].ret)

\* C9: get_history returns the merge of the stored history and the cache
\* history for an instance marked persisted and the cache history alone for
\* any other, without duplicate (task, timestamp) keys and sorted ascending by
\* timestamp; consequently, after any sequence of add_update and
\* _persist_and_clear calls on an instance, what get_history returns contains
\* every update recorded so far.
C9_GetHistoryComplete ==
    /\ GetHistoryIsMerge
    /\ GetHistoryReturned =>
          \A r \in recorded :
              r[1] = local[Caller].hypothesis_id => r[2] \in Updates(local[Caller].ret)

\* C10 as stated: what get_history returns after _persist_and_clear is, as a
\* set, the merged history that existed before: every entry is an entry that
\* get_task_history or the cache returned before, unaltered.
C10_RoundTripIdentical ==
    FinalizeReturned =>
        LET h == local[Caller].hypothesis_id
        IN  /\ IsMergeOf(GetHistory(h), PreStored(Caller, h), PreCached)
            /\ Range(GetHistory(h)) \subseteq
                  Range(GetTaskHistory(pre[Caller].task_updates, h)) \cup PreCached

\* C10 as amended: what get_history returns after _persist_and_clear is, on
\* the StepUpdate fields (timestamp, task, state, progress, details, error),
\* the merged history that existed before; every entry read back carries in
\* addition the hypothesis_id and the _id string of its document.
C10_RoundTripStepUpdates ==
    FinalizeReturned =>
        LET h == local[Caller].hypothesis_id
        IN  /\ IsMergeOf(GetHistory(h), PreStored(Caller, h), PreCached)
            /\ \A entry \in Range(GetHistory(h)) :
                  /\ entry.hypothesis_id = h
                  /\ entry._id # NoId
                  /\ entry._id.str

\* a stored history and a cache history have gone through _persist_and_clear
C10_Witness ==
    /\ FinalizeReturned
    /\ PreStored(Caller, local[Caller].hypothesis_id) # {}
    /\ PreCached # {}
    /\ Len(GetHistory(local[Caller].hypothesis_id)) >= 2

\* the updates recorded for an instance all differ in their key, and the
\* caller has got them all from get_history
RecordedAllReturned ==
    RecordedKeysDistinct /\ GetHistoryReturned =>
        \A r \in recorded :
            r[1] = local[Caller].hypothesis_id => r[2] \in Updates(local[Caller].ret)

\* the entries of a merged history whose key a stored and a cached update
\* share are the cached updates
CacheWinsCollisions(result, stored, cached) ==
    \A entry \in Updates(result) :
        Key(entry) \in Keys(stored) \cap Keys(cached) => entry \in cached

\* C11: merge precedence on key collision.  Whenever an update of the
\* collection and an update of the cache have the same (task, timestamp) key,
\* the merged result keeps the one of the cache, which is the newer of the two;
\* this holds for the merge _persist_and_clear writes to the collection and for
\* the merge get_history returns.
C11_CacheWinsOnCollision ==
    /\ FinalizeReturned =>
          CacheWinsCollisions(Find(task_updates, local[Caller].hypothesis_id),
              PreStored(Caller, local[Caller].hypothesis_id), PreCached)
    /\ GetHistoryReturned /\ local[Caller].hypothesis_id \in persisted =>
          CacheWinsCollisions(local[Caller].ret,
              Range(Stored(local[Caller].hypothesis_id)),
              history[local[Caller].hypothesis_id])

\* the part of C11 on _persist_and_clear
FinalizeCacheWins ==
    FinalizeReturned =>
        CacheWinsCollisions(Find(task_updates, local[Caller].hypothesis_id),
            PreStored(Caller, local[Caller].hypothesis_id), PreCached)

\* a _persist_and_clear has merged a stored and a cached update of one key
\* that differ
FinalizeCollision ==
    /\ FinalizeReturned
    /\ \E u \in PreStored(Caller, local[Caller].hypothesis_id) :
          \E c \in PreCached : Key(u) = Key(c) /\ u # c

\* the caller has returned from get_latest_state
GetLatestStateReturned ==
    /\ pc[Caller] = "returned"
    /\ local[Caller].op = "get_latest_state"

\* C12: get_latest_state is cache-only.  While the cache history of an
\* instance holds updates that are not finalized it returns the update of the
\* most recent add_update call for the instance; after _persist_and_clear has
\* cleared the instance it returns none, also when get_history returns a
\* history that is not empty; what it returns is the latest pointer of the
\* cache, never an entry of the collection, and the call changes no store.
C12_LatestStateCacheOnly ==
    GetLatestStateReturned =>
        LET h == local[Caller].hypothesis_id
        IN  /\ local[Caller].ret = latest[h]
            /\ history[h] # {} =>
                  local[Caller].ret # <<>> /\ local[Caller].ret = lastRecorded[h]
            /\ h \in persisted /\ history[h] = {} => local[Caller].ret = <<>>
            /\ Stores = pre[Caller]

\* get_latest_state has returned none for a finalized instance whose
\* get_history is not empty
C12_Witness ==
    /\ GetLatestStateReturned
    /\ local[Caller].ret = <<>>
    /\ local[Caller].hypothesis_id \in persisted
    /\ GetHistory(local[Caller].hypothesis_id) # <<>>

\* get_latest_state has returned the second of two updates of an instance
LatestOfTwo ==
    /\ GetLatestStateReturned
    /\ local[Caller].ret # <<>>
    /\ Cardinality(history[local[Caller].hypothesis_id]) = 2

\* number of Completed entries of a history for a task
CompletedCount(task_history, task_name) ==
    Cardinality({k \in 1..Len(task_history) :
                    /\ task_history[k].task = task_name
                    /\ task_history[k].state = "completed"})

\* sum over the tasks of a weight table of weight times Completed entries
RECURSIVE WeightOfCompleted(_, _, _)
WeightOfCompleted(table, names, task_history) ==
    IF names = {} THEN 0
    ELSE LET name == CHOOSE n \in names : TRUE
         IN  table[name] * CompletedCount(task_history, name)
             + WeightOfCompleted(table, names \ {name}, task_history)

\* the tasks with a Completed entry are exactly the given ones, one entry each
CompletedExactly(task_history, names) ==
    \A k \in 1..Len(PipelineTasks) :
        CompletedCount(task_history, PipelineTasks[k]) =
            (IF PipelineTasks[k] \in names THEN 1 ELSE 0)

\* the five tasks of the enrichment flow
EnrichmentFlowTasks ==
    {"Verifying existence of enrichment data", "Getting candidate genes",
     "Predicting causal gene", "Getting relevant gene proof",
     "Creating enrich data"}

\* C15: calculate_progress is min(E + H, 100), E the sum of the enrichment
\* weights and H the sum of the hypothesis weights over the entries whose state
\* is Completed; entries in another state and entries of a task in neither
\* table add nothing.  It is 0 for the empty history, 80 when the five
\* enrichment tasks and no hypothesis task are Completed, 20 when only
\* "Creating enrich data" is Completed, and always within 0..100.
C15_ProgressIsCappedSum ==
    LET E == WeightOfCompleted(enrichment_tasks, DOMAIN enrichment_tasks,
                               calc.task_history)
        H == WeightOfCompleted(hypothesis_tasks, DOMAIN hypothesis_tasks,
                               calc.task_history)
    IN  /\ calc.progress = Min(E + H, 100)
        /\ calc.progress \in 0..100
        /\ Len(calc.task_history) = 1 => calc.before = 0
        /\ CompletedExactly(calc.task_history, EnrichmentFlowTasks) =>
              calc.progress = 80
        /\ CompletedExactly(calc.task_history, {"Creating enrich data"}) =>
              calc.progress = 20

\* the weights of the Completed entries add up to more than 100, after a
\* history with the five enrichment tasks Completed alone gave 80
C15_Witness ==
    /\ Len(calc.task_history) = MaxHistoryLen
    /\ WeightOfCompleted(enrichment_tasks, DOMAIN enrichment_tasks, calc.task_history)
       + WeightOfCompleted(hypothesis_tasks, DOMAIN hypothesis_tasks, calc.task_history)
       > 100
    /\ calc.progress = 100
    /\ \E k \in 1..Len(calc.task_history) : calc.task_history[k].state = "failed"

\* the five enrichment tasks are Completed, the hypothesis tasks have failed
EnrichmentDoneAlone ==
    /\ CompletedExactly(calc.task_history, EnrichmentFlowTasks)
    /\ Len(calc.task_history) > 5
    /\ calc.progress = 80

\* the eight hypothesis-flow task names as the weight table of the
\* specification spells them
TableHypothesisTasks ==
    {"Verifying existence of hypothesis data", "Getting enrichment data",
     "Getting gene data", "Querying gene data", "Querying variant data",
     "Querying phenotype data", "Generating graph summary",
     "Generating hypothesis"}

\* the eight hypothesis-flow task names as the pipeline emits them
HypothesisFlowTasks ==
    {"Verifying existence of hypothesis data", "Getting enrichement data",
     "Getting gene data", "Querying gene data", "Querying variant data",
     "Querying phenotype data", "Generating graph summary",
     "Generating hypothesis"}

\* C16 as stated: with the hypothesis task names "Verifying existence of
\* hypothesis data", "Getting enrichment data", "Getting gene data", "Querying
\* gene data", "Querying variant data", "Querying phenotype data", "Generating
\* graph summary", "Generating hypothesis", a history in which these eight are
\* Completed and no enrichment task is yields 20, and a history in which they
\* and the five enrichment tasks are Completed yields 100.
C16_TableNamesYieldFull ==
    /\ CompletedExactly(calc.task_history, TableHypothesisTasks) =>
          calc.progress = 20
    /\ CompletedExactly(calc.task_history,
                        TableHypothesisTasks \cup EnrichmentFlowTasks) =>
          calc.progress = 100

\* C16 as amended: with the second hypothesis task named "Getting enrichement
\* data", as calculate_progress and the pipeline spell it, a history in which
\* the eight hypothesis tasks are Completed and no enrichment task is yields
\* 20, and a history in which all thirteen tasks are Completed yields 100; a
\* Completed entry named "Getting enrichment data" adds nothing.
C16_EmittedNamesYieldFull ==
    /\ CompletedExactly(calc.task_history, HypothesisFlowTasks) =>
          calc.progress = 20
    /\ CompletedExactly(calc.task_history,
                        HypothesisFlowTasks \cup EnrichmentFlowTasks) =>
          calc.progress = 100
    /\ CompletedExactly(calc.task_history,
                        HypothesisFlowTasks \cup {"Getting enrichment data"}) =>
          calc.progress = 20

\* all thirteen tasks of the two flows are Completed
C16_Witness ==
    /\ CompletedExactly(calc.task_history,
                        HypothesisFlowTasks \cup EnrichmentFlowTasks)
    /\ calc.progress = 100

\* the entries that can be added to a history
HistoryEntries ==
    {BuildUpdate(Len(calc.task_history) + 1, PipelineTasks[k], state, 0, None, None) :
        k \in 1..Len(PipelineTasks), state \in TaskState}

\* the entry is Completed and its task is in one of the two weight tables
IsWeighted(entry) ==
    /\ entry.state = "completed"
    /\ entry.task \in DOMAIN enrichment_tasks \cup DOMAIN hypothesis_tasks

\* C17: calculate_progress is monotonic.  For every history and every
\* Completed entry of a task of one of the two weight tables, the result for
\* the history with the entry added is not less than the result for the
\* history; adding an entry in another state or of an unknown task leaves the
\* result as it is.
C17_ProgressMonotonic ==
    /\ calc.task_history # <<>> =>
          LET entry == calc.task_history[Len(calc.task_history)]
          IN  IF IsWeighted(entry) THEN calc.progress >= calc.before
              ELSE calc.progress = calc.before
    /\ \A entry \in HistoryEntries :
          LET extended == CalculateProgress(Append(calc.task_history, entry))
          IN  IF IsWeighted(entry) THEN extended >= calc.progress
              ELSE extended = calc.progress

\* a Completed entry has raised the result, after a Failed entry and an entry
\* of an unknown task had left it as it was
C17_Witness ==
    /\ Len(calc.task_history) >= 3
    /\ IsWeighted(calc.task_history[Len(calc.task_history)])
    /\ calc.progress > calc.before
    /\ calc.before > 0
    /\ \E k \in 1..Len(calc.task_history) :
          /\ calc.task_history[k].task = "Getting enrichment data"
          /\ calc.task_history[k].state = "completed"
    /\ \E k \in 1..Len(calc.task_history) : calc.task_history[k].state = "failed"

\* the caller has returned from recover_from_cache
RecoverReturned ==
    /\ pc[Caller] = "returned"
    /\ local[Caller].op = "recover_from_cache"

\* recover_from_cache has finalized the instance: it is persisted and not in
\* progress, its cache history and its latest pointer are cleared
Finalized(hypothesis_id) ==
    /\ hypothesis_id \in persisted
    /\ hypothesis_id \notin inprogress
    /\ history[hypothesis_id] = {}
    /\ latest[hypothesis_id] = <<>>

\* C13: recover_from_cache finalizes every dangling instance.  When it
\* returns, every instance that was in the in-progress set when it began is in
\* the persisted set and not in the in-progress set, its cache history and its
\* latest pointer are cleared, and every update that was in its cache history
\* is in its stored history; also for an instance without latest pointer.
C13_RecoverFinalizesAll ==
    RecoverReturned =>
        \A h \in pre[Caller].inprogress :
            /\ Finalized(h)
            /\ pre[Caller].history[h] \subseteq Range(Stored(h))

\* C13 for the instances whose cached updates all differ in their key
RecoverFinalizesDistinctKeys ==
    RecoverReturned =>
        \A h \in pre[Caller].inprogress :
            /\ Finalized(h)
            /\ (\A u1, u2 \in pre[Caller].history[h] : Key(u1) = Key(u2) => u1 = u2)
                  => pre[Caller].history[h] \subseteq Range(Stored(h))

\* recover_from_cache has finalized an instance that had a cache history and
\* no latest pointer
RecoveredWithoutLatest ==
    /\ RecoverReturned
    /\ \E h \in pre[Caller].inprogress :
          /\ pre[Caller].latest[h] = <<>>
          /\ pre[Caller].history[h] # {}
          /\ Range(Stored(h)) # {}

\* the update lacks timestamp, state or progress
LacksFields(update) ==
    update.timestamp = NoNumber \/ update.state = None \/ update.progress = NoNumber

\* entry is what the defaults make of a latest update: absent fields filled
\* with a timestamp, Failed and 0, the fields that are present untouched
IsPatchOf(entry, latest_update) ==
    /\ entry.task = latest_update.task
    /\ entry.timestamp # NoNumber
    /\ latest_update.timestamp # NoNumber => entry.timestamp = latest_update.timestamp
    /\ entry.state = (IF latest_update.state = None THEN "failed"
                      ELSE latest_update.state)
    /\ entry.progress = (IF latest_update.progress = NoNumber THEN 0
                         ELSE latest_update.progress)
    /\ entry.details = latest_update.details
    /\ entry.error = latest_update.error

RecoverDefaultsAlone ==
    RecoverReturned =>
        \A h \in pre[Caller].inprogress :
            /\ pre[Caller].latest[h] # <<>>
            /\ LacksFields(pre[Caller].latest[h][1])
            /\ pre[Caller].history[h] = {}
            => /\ h \in persisted
               /\ \E entry \in Range(Stored(h)) :
                     IsPatchOf(entry, pre[Caller].latest[h][1])

\* recover_from_cache has finalized an instance whose latest update lacked
\* timestamp and state, at a later time
RecoveredPartialLatest ==
    /\ RecoverReturned
    /\ now = MaxTime
    /\ \E h \in pre[Caller].inprogress :
          /\ pre[Caller].latest[h] # <<>>
          /\ pre[Caller].latest[h][1].timestamp = NoNumber
          /\ pre[Caller].latest[h][1].state = None
          /\ pre[Caller].history[h] = {}

\* ------------------------------------------------------------------------
\* emit_task_update: the retries of the publication
\* ------------------------------------------------------------------------
\* the emit_task_update call of the caller has raised what socketio.emit raised
PublishRaised ==
    /\ local[Caller].op = "emit_task_update"
    /\ pc[Caller] = "raised"
    /\ local[Caller].raised = "Exception"

\* what holds of the attempts and pauses of an emit_task_update call
BoundedRetries ==
    LET e == local[Caller]
    IN  e.op = "emit_task_update" =>
            /\ e.attempt <= 3
            /\ e.published => pc[Caller] = "returned"
            /\ pc[Caller] = "returned" => e.published /\ e.sleeps = e.attempt - 1
            /\ pc[Caller] = "emit" => ~e.published /\ e.sleeps = e.attempt
            /\ pc[Caller] = "sleep" =>
                   ~e.published /\ e.attempt < 3 /\ e.sleeps = e.attempt - 1
            /\ PublishRaised <=> e.attempt = 3 /\ ~e.published

\* a step of the publication loop is one more attempt or one more pause, and
\* an attempt is made at the envelope as it was built
PublishLoopAdvances ==
    pc[Caller] \in {"emit", "sleep"} /\ local'[Caller] # local[Caller] =>
        /\ local'[Caller].attempt + local'[Caller].sleeps =
               local[Caller].attempt + local[Caller].sleeps + 1
        /\ local'[Caller].envelope = local[Caller].envelope
        /\ pc'[Caller] \in {"emit", "sleep", "returned", "raised"}

\* C18: emit_task_update makes at most 3 attempts to publish one envelope,
\* stops at the first that succeeds, pauses once between a failed attempt and
\* the next and nowhere else, and raises exactly when the third attempt has
\* failed; every step of the loop is an attempt or a pause, of which there are
\* at most 3 and 2, so the loop ends
C18_BoundedRetries == []BoundedRetries /\ [][PublishLoopAdvances]_vars

\* all three attempts have failed and the call has raised
C18_Witness ==
    /\ PublishRaised
    /\ local[Caller].attempt = 3
    /\ local[Caller].sleeps = 2

\* ------------------------------------------------------------------------
\* emit_task_update: a failed publication leaves the record in place
\* ------------------------------------------------------------------------
\* the update and the membership add_update left behind are in place
RecordInPlace(p, present) ==
    LET h == local[p].hypothesis_id
        update == local[p].update
    IN  /\ present
        /\ IF ShouldPersist(update.state, update.task, update.progress)
           THEN /\ h \notin inprogress
                /\ h \in persisted
                /\ inprogress \ {h} = pre[p].inprogress \ {h}
                /\ persisted \ {h} = pre[p].persisted \ {h}
           ELSE /\ inprogress = pre[p].inprogress \cup {h}
                /\ persisted = pre[p].persisted

\* no attempt to publish is made before add_update and the
\* _persist_and_clear it calls are over
RecordBeforePublish ==
    local[Caller].op = "emit_task_update" /\ pc[Caller] \notin {"emit", "sleep"} =>
        \/ local[Caller].attempt = 0
        \/ pc[Caller] \in {"returned", "raised"}

\* C19: add_update and the _persist_and_clear it calls are over before the
\* first attempt to publish, and when emit_task_update raises because all the
\* attempts failed, the update is in the cache history or in the stored
\* history of the instance, and the in-progress and persisted sets are as
\* add_update left them.
C19_FailureIsNoRollback ==
    /\ RecordBeforePublish
    /\ PublishRaised =>
          RecordInPlace(Caller,
              local[Caller].update \in
                  history[local[Caller].hypothesis_id]
                      \cup Range(Stored(local[Caller].hypothesis_id)))

\* C19 with the update taken by its (task, timestamp) key: an update of that
\* key is in the cache history or in the stored history
FailureKeepsKey ==
    /\ RecordBeforePublish
    /\ PublishRaised =>
          RecordInPlace(Caller,
              Key(local[Caller].update) \in
                  Keys(history[local[Caller].hypothesis_id]
                           \cup Range(Stored(local[Caller].hypothesis_id))))

\* all attempts to publish a finalizing update have failed
FailureAfterFinalize ==
    /\ PublishRaised
    /\ local[Caller].finalize

\* ------------------------------------------------------------------------
\* emit_task_update: the status label of the envelope
\* ------------------------------------------------------------------------
\* the envelope of the emit_task_update call of the caller is built and is the
\* one socketio.emit is given
EnvelopeBuilt ==
    /\ local[Caller].op = "emit_task_update"
    /\ \/ pc[Caller] \in {"emit", "sleep", "returned"}
       \/ PublishRaised

\* the update is the completion of the enrichment flow
EnrichmentMilestone(task_name, state, progress) ==
    /\ state = "completed"
    /\ \/ task_name = "Creating enrich data"
       \/ task_name = "Verifying existence of enrichment data" /\ progress = 80

\* the update is the completion of the hypothesis flow
HypothesisMilestone(task_name, state, progress) ==
    /\ state = "completed"
    /\ \/ task_name = "Generating hypothesis"
       \/ task_name = "Verifying existence of hypothesis data" /\ progress = 100

\* the labels of the milestones and of the failures
MilestoneAndFailureLabels(a, progress, envelope) ==
    /\ EnrichmentMilestone(a.task_name, a.state, progress) =>
           envelope.status = "Enrichment_completed" /\ envelope.progress = 80
    /\ HypothesisMilestone(a.task_name, a.state, progress) =>
           envelope.status = "Hypothesis_completed" /\ envelope.progress = 100
    /\ a.state = "failed" =>
           envelope.status = "failed" /\ envelope.error = a.error

\* C20: in the envelope emit_task_update publishes, a Completed update of
\* "Creating enrich data", or of "Verifying existence of enrichment data" at
\* progress 80, has status Enrichment_completed and progress 80; a Completed
\* update of "Generating hypothesis", or of "Verifying existence of hypothesis
\* data" at progress 100, has status Hypothesis_completed and progress 100; a
\* Failed update has status failed and the error text; any other update has
\* none of the three labels.
C20_StatusLabel ==
    EnvelopeBuilt =>
        LET a == local[Caller].args
            progress == local[Caller].progress
            envelope == local[Caller].envelope
        IN  /\ MilestoneAndFailureLabels(a, progress, envelope)
            /\ /\ a.state # "failed"
               /\ ~EnrichmentMilestone(a.task_name, a.state, progress)
               /\ ~HypothesisMilestone(a.task_name, a.state, progress)
               => envelope.status \notin
                      {"failed", "Enrichment_completed", "Hypothesis_completed"}

\* the first three parts of C20
LabelsOfMilestonesAndFailures ==
    EnvelopeBuilt =>
        MilestoneAndFailureLabels(local[Caller].args, local[Caller].progress,
                                  local[Caller].envelope)

\* C20 for the calls that pass an error text with the Failed state only
LabelsWithoutStrayError ==
    EnvelopeBuilt /\ (Truthy(local[Caller].args.error) =>
                          local[Caller].args.state = "failed")
        => C20_StatusLabel

\* the envelope of a Completed "Verifying existence of enrichment data" at
\* progress 80 has been published
MilestonePublished ==
    /\ EnvelopeBuilt
    /\ local[Caller].published
    /\ local[Caller].args.task_name = "Verifying existence of enrichment data"
    /\ local[Caller].args.state = "completed"
    /\ local[Caller].progress = 80

\* ------------------------------------------------------------------------
\* add_update: the optional fields of the update
\* ------------------------------------------------------------------------
\* the updates the cache history and the collection hold for an instance
Held(hypothesis_id) ==
    history[hypothesis_id] \cup Range(Stored(hypothesis_id))

\* the caller is in an add_update call that has built its update
UpdateBuilt ==
    /\ local[Caller].op = "add_update"
    /\ pc[Caller] \notin {"idle", "raised"}

\* no update held has empty details, and the update of a call that was given
\* empty details has no details
DetailsOmittedWhenEmpty ==
    /\ \A h \in HypIds : \A update \in Held(h) :
          update.details \notin {"", EmptyDetails}
    /\ UpdateBuilt /\ local[Caller].details \in {None, "", EmptyDetails} =>
          local[Caller].update.details = None

\* C21: every update in the cache history or in the collection has an error
\* only if its state is "failed", and has no details when the details passed
\* to add_update were empty.
C21_OptionalFields ==
    /\ \A h \in HypIds : \A update \in Held(h) :
          update.error # None => update.state = "failed"
    /\ DetailsOmittedWhenEmpty

\* the error of an update is the error passed to add_update, whatever the
\* state, and an update has no error when none was passed
ErrorIsWhatWasPassed ==
    UpdateBuilt =>
        local[Caller].update.error = local[Caller].error

\* C21 for the calls that pass an error with the Failed state only
OptionalFieldsWithoutStrayError ==
    (\A r \in recorded : r[2].error # None => r[2].state = "failed")
        => C21_OptionalFields

\* a Failed update with an error and without details, recorded by a call that
\* was given empty details, is in the collection
FailedWithErrorStored ==
    \E update \in Range(Stored("h1")) :
        /\ update.state = "failed"
        /\ update.error = "error text"
        /\ update.details = None
        /\ UpdateBuilt
        /\ local[Caller].update = update
        /\ local[Caller].details = EmptyDetails

\* ------------------------------------------------------------------------
\* updates of one instance with the same timestamp
\* ------------------------------------------------------------------------
\* pairs of different updates recorded for one instance in the same millisecond
SameTimestampPairs ==
    {pair \in recorded \X recorded :
        /\ pair[1][1] = pair[2][1]
        /\ pair[1][2] # pair[2][2]
        /\ pair[1][2].timestamp = pair[2][2].timestamp}

\* C22: two different updates of one instance that were recorded with the
\* same millisecond timestamp are both in the cache history when the second
\* add_update has written the cache, and both are in the cache history or in
\* the collection once the calls are over, also when they are updates of the
\* same task.
C22_SameTimestampBothKept ==
    /\ pc[Caller] = "decide" =>
          \A pair \in SameTimestampPairs :
              /\ pair[1][2] \in pre[Caller].history[pair[1][1]]
              /\ pair[2][2] = local[Caller].update
              /\ pair[2][1] = local[Caller].hypothesis_id
              => {pair[1][2], pair[2][2]} \subseteq history[pair[1][1]]
    /\ AllIdle =>
          \A pair \in SameTimestampPairs :
              {pair[1][2], pair[2][2]} \subseteq Held(pair[1][1])

\* the cache part of C22: the sorted set keeps two members of equal score
CacheKeepsBoth ==
    pc[Caller] = "decide" =>
        \A pair \in SameTimestampPairs :
            /\ pair[1][2] \in pre[Caller].history[pair[1][1]]
            /\ pair[2][2] = local[Caller].update
            /\ pair[2][1] = local[Caller].hypothesis_id
            => {pair[1][2], pair[2][2]} \subseteq history[pair[1][1]]

\* C22 for updates of different tasks
DifferentTasksBothKept ==
    AllIdle =>
        \A pair \in SameTimestampPairs :
            pair[1][2].task # pair[2][2].task =>
                {pair[1][2], pair[2][2]} \subseteq Held(pair[1][1])

\* two updates of different tasks with the same timestamp are in the
\* collection
SameTimestampStored ==
    /\ AllIdle
    /\ \E pair \in SameTimestampPairs :
          /\ pair[1][2].task # pair[2][2].task
          /\ {pair[1][2], pair[2][2]} \subseteq Range(Stored(pair[1][1]))

\* two updates of one task with the same timestamp are in the cache history
SameKeyCached ==
    /\ pc[Caller] = "decide"
    /\ \E pair \in SameTimestampPairs :
          /\ pair[1][2].task = pair[2][2].task
          /\ {pair[1][2], pair[2][2]} \subseteq history[pair[1][1]]

\* ------------------------------------------------------------------------
\* the persisted set
\* ------------------------------------------------------------------------
\* a step that changes the persisted set is the last step of a
\* _persist_and_clear whose save_task_history has written the final history
OnlyFinalizeMarksPersisted ==
    persisted' # persisted =>
        LET h == local[Caller].hypothesis_id
        IN  /\ pc[Caller] = "sadd_persisted"
            /\ local[Caller].finalize
            /\ local[Caller].op \in {"add_update", "recover_from_cache"}
            /\ local[Caller].op = "add_update" =>
                   ShouldPersist(local[Caller].update.state,
                                 local[Caller].update.task,
                                 local[Caller].update.progress)
            /\ persisted' = persisted \cup {h}
            /\ Stored(h) = StepUpdates(local[Caller].final_history)

\* C23: an instance id enters the persisted set only by the last step of a
\* _persist_and_clear (called by add_update on a finalizing update or by
\* recover_from_cache) that has written the history of the
\* instance to the collection; no step of get_history or get_latest_state and
\* no add_update that does not finalize changes the persisted set.
C23_OnlyFinalizePersists == [][OnlyFinalizeMarksPersisted]_vars

\* one instance was marked persisted by an add_update and another by
\* recover_from_cache, and get_history has been called since
C23_Witness ==
    /\ persisted = {"h1", "h2"}
    /\ local[Caller].op = "get_history"
    /\ pc[Caller] = "returned"

\* ------------------------------------------------------------------------
\* emit_task_update: the progress it records
\* ------------------------------------------------------------------------
\* what get_history returns for the instance of the call of worker p from the
\* stores as they were when the call began
PreHistory(p) ==
    LET h == local[p].hypothesis_id
    IN  SortedHistory(ZRange(pre[p].history[h]),
                      IF h \in pre[p].persisted
                      THEN GetTaskHistory(pre[p].task_updates, h) ELSE <<>>)

\* the emit_task_update call of the caller has written its update to the cache
EmitRecorded ==
    /\ local[Caller].op = "emit_task_update"
    /\ pc[Caller] = "decide"

\* C24: the update emit_task_update records has, when the progress argument
\* is 0, the progress calculate_progress gives for the history of the
\* instance as it was before the call, without the update itself, and when
\* the argument is not 0, the argument.
C24_RecordedProgress ==
    EmitRecorded =>
        LET update == local[Caller].update
            a == local[Caller].args
        IN  /\ update \in history[local[Caller].hypothesis_id]
            /\ update.progress = IF a.progress = 0
                                 THEN CalculateProgress(PreHistory(Caller))
                                 ELSE a.progress
            /\ a.progress # 0 => ~update.float

\* a Completed update of a weighted task was recorded with a progress that was
\* computed from a history with completed tasks and that its own weight would
\* have raised
C24_Witness ==
    /\ EmitRecorded
    /\ local[Caller].args.progress = 0
    /\ local[Caller].update.state = "completed"
    /\ local[Caller].update.progress > 0
    /\ CalculateProgress(Append(PreHistory(Caller), local[Caller].update))
           > local[Caller].update.progress

\* ------------------------------------------------------------------------
\* emit_task_update: the window of the envelope
\* ------------------------------------------------------------------------
\* the positions of the Completed entries of a history
CompletedAt(task_history) ==
    {k \in 1..Len(task_history) : task_history[k].state = "completed"}

\* the position of the m-th Completed entry of a history
NthCompleted(task_history, m) ==
    CHOOSE k \in CompletedAt(task_history) :
        Cardinality({j \in CompletedAt(task_history) : j <= k}) = m

StoreRaised ==
    /\ local[Caller].op = "add_update"
    /\ pc[Caller] = "raised"
    /\ local[Caller].raised = "PyMongoError"

\* the cache entries of the instance are what add_update wrote before it
\* called _persist_and_clear
CacheAsRecorded ==
    LET h == local[Caller].hypothesis_id
    IN  /\ history[h] = pre[Caller].history[h] \cup {local[Caller].update}
        /\ latest[h] = <<local[Caller].update>>
        /\ inprogress = pre[Caller].inprogress \cup {h}
        /\ persisted = pre[Caller].persisted

\* C26: when the read, the delete or the insert of a _persist_and_clear fails,
\* the call raises, the cache history, the latest pointer and the in-progress
\* membership of the instance are as they were when _persist_and_clear began,
\* and every update that was in the collection or in the cache history then
\* is in one of them.
C26_StoreFailureLosesNothing ==
    StoreRaised =>
        /\ CacheAsRecorded
        /\ PreStored(Caller, local[Caller].hypothesis_id) \cup PreCached
               \subseteq Held(local[Caller].hypothesis_id)

\* the cache part of C26
StoreFailureKeepsCache == StoreRaised => CacheAsRecorded

\* C26 for the failures that leave the collection as it was: those of the
\* read and of the delete
FailureBeforeWriteLosesNothing ==
    StoreRaised /\ task_updates = pre[Caller].task_updates =>
        PreStored(Caller, local[Caller].hypothesis_id) \cup PreCached
            \subseteq Held(local[Caller].hypothesis_id)

\* a failure of the read or of the delete of a _persist_and_clear on an
\* instance that has a stored history
FailedBeforeWrite ==
    /\ StoreRaised
    /\ task_updates = pre[Caller].task_updates
    /\ task_updates # <<>>

\* ------------------------------------------------------------------------
\* what the operations leave alone
\* ------------------------------------------------------------------------
\* nothing of the instances other than h differs from what it was when the
\* call of the caller began
OthersUnchanged(h) ==
    \A g \in HypIds \ {h} :
        /\ history[g] = pre[Caller].history[g]
        /\ latest[g] = pre[Caller].latest[g]
        /\ (g \in inprogress) = (g \in pre[Caller].inprogress)
        /\ (g \in persisted) = (g \in pre[Caller].persisted)
        /\ Find(task_updates, g) = Find(pre[Caller].task_updates, g)

\* the caller is in a call
InCall == pc[Caller] # "idle"

\* C27: during and after an add_update that does not finalize, the collection
\* and the persisted set are what they were when the call began and the cache
\* entries of every other instance are unchanged; during and after
\* get_history, get_latest_state and calculate_progress, the cache, the two
\* sets and the collection are what they were; during and after a
\* _persist_and_clear of one instance, the cache entries, the memberships and
\* the stored history of every other instance are what they were.
C27_Frame ==
    /\ InCall /\ local[Caller].op = "add_update" /\ ~local[Caller].finalize
           /\ local[Caller].raised = None =>
          /\ task_updates = pre[Caller].task_updates
          /\ persisted = pre[Caller].persisted
          /\ OthersUnchanged(local[Caller].hypothesis_id)
    /\ InCall /\ local[Caller].op \in {"get_history", "get_latest_state",
                                      "calculate_progress"} =>
          Stores = pre[Caller]
    /\ InCall /\ local[Caller].finalize =>
          OthersUnchanged(local[Caller].hypothesis_id)

\* a _persist_and_clear of "h1" has returned while "h2" has a latest pointer
\* in the cache
C27_Witness ==
    /\ pc[Caller] = "returned"
    /\ local[Caller].finalize
    /\ local[Caller].hypothesis_id = "h1"
    /\ latest["h2"] # <<>>

\* ------------------------------------------------------------------------
\* the cache entries of an instance agree
\* ------------------------------------------------------------------------
\* the in-progress membership, the cache history and the latest pointer of an
\* instance are all there or all absent, and the latest pointer is an entry of
\* the history
CacheConsistent(h) ==
    /\ (h \in inprogress) <=> (history[h] # {})
    /\ (history[h] # {}) <=> (latest[h] # <<>>)
    /\ latest[h] # <<>> => latest[h][1] \in history[h]

\* C28: whenever no call is in flight, whatever the interleaving of the calls
\* before, every instance is in the in-progress set exactly if its cache
\* history is not empty and exactly if its latest pointer is set, and the
\* latest pointer is an entry of the cache history.
C28_CacheConsistent ==
    AllIdle => \A h \in HypIds : CacheConsistent(h)

\* C28 as long as no _persist_and_clear has begun to clear the cache: the
\* add_update calls of concurrent workers alone keep the entries consistent
CacheConsistentBeforeFinalize ==
    AllIdle /\ persisted = {} /\ task_updates = <<>>
        => \A h \in HypIds : CacheConsistent(h)

\* two workers have recorded updates of one instance, none of which finalizes
RecordedConcurrently ==
    /\ AllIdle
    /\ persisted = {}
    /\ Cardinality(history["h1"]) = 2

\* ------------------------------------------------------------------------
\* emit_task_update: the milestones and the finalize
\* ------------------------------------------------------------------------
\* the envelope of the caller announces a milestone
MilestoneAnnounced ==
    /\ EnvelopeBuilt
    /\ local[Caller].envelope.status \in {"Enrichment_completed",
                                          "Hypothesis_completed"}

\* the add_update of the emit_task_update call has finalized the instance and
\* the update is in the stored history
AnnouncedIsStored ==
    LET h == local[Caller].hypothesis_id
    IN  /\ h \in persisted
        /\ h \notin inprogress
        /\ local[Caller].update \in Range(Stored(h))

\* C29: whenever emit_task_update has built an envelope with the status
\* Enrichment_completed or Hypothesis_completed and publishes it, the instance
\* is in the persisted set, is not in the in-progress set, and the update
\* recorded by the call is in the stored history.
C29_MilestoneIsFinalized ==
    MilestoneAnnounced => AnnouncedIsStored

\* C29 for the milestones other than "Verifying existence of hypothesis data"
\* at progress 100
OtherMilestonesFinalized ==
    MilestoneAnnounced
        /\ local[Caller].args.task_name # "Verifying existence of hypothesis data"
        => AnnouncedIsStored

\* the envelope of a Completed "Verifying existence of enrichment data" at
\* progress 80 has been published with the status Enrichment_completed
EnrichmentFoundAnnounced ==
    /\ MilestoneAnnounced
    /\ local[Caller].published
    /\ local[Caller].args.task_name = "Verifying existence of enrichment data"

\* ------------------------------------------------------------------------
\* the stored history grows
\* ------------------------------------------------------------------------
\* the (task, timestamp) keys the collection holds for an instance
StoredKeys(hypothesis_id) == Keys(Range(Stored(hypothesis_id)))

\* C30: in a sequence of add_update and recover_from_cache calls made one at
\* a time, with the _persist_and_clear calls they make, the (task, timestamp)
\* keys the collection holds for an instance when a call began are all there
\* at every later step of the call, but for the moment between the delete and
\* the insert of save_task_history: a _persist_and_clear writes a superset of
\* the keys the collection held.
C30_DurableHistoryGrows ==
    pc[Caller] \notin {"idle", "insert_many"} =>
        \A h \in HypIds :
            Keys(PreStored(Caller, h)) \subseteq StoredKeys(h)

\* C30 for the calls in which the store does not fail
GrowsUnlessStoreFails ==
    pc[Caller] \notin {"idle", "insert_many"} /\ local[Caller].raised = None =>
        \A h \in HypIds :
            Keys(PreStored(Caller, h)) \subseteq StoredKeys(h)

\* a _persist_and_clear has returned for an instance that had a stored
\* history, and the stored history has more keys than before
StoredHistoryGrown ==
    /\ pc[Caller] = "returned"
    /\ local[Caller].finalize
    /\ PreStored(Caller, local[Caller].hypothesis_id) # {}
    /\ Keys(PreStored(Caller, local[Caller].hypothesis_id))
           # StoredKeys(local[Caller].hypothesis_id)

====
